---- MODULE Spec2Model ----
(***************************************************************************)
(* The frame orchestrator of the_hard_way: Engine::next_frame driving the  *)
(* frame synchronizer (FrameSync), the swapchain (Swapchain,               *)
(* SwapChainImage), the material and object registries and the buffers     *)
(* (AllocatedBuffer) against an asynchronous GPU queue.  The CPU is one    *)
(* thread whose position is pc; the GPU retires submitted frames and       *)
(* copies in submission order and signals their fences.                    *)
(*                                                                         *)
(* Spec        the engine: frames, materials, swapchain invalidation       *)
(* SpecSync    a FrameSync on its own                                      *)
(* SpecBuf     an AllocatedBuffer on its own                               *)
(* SpecScene   an engine with materials loaded: objects, unload, frames    *)
(* SpecRemove  an engine with one material: objects added and removed      *)
(* SpecIds     an engine without swapchain: the ids of materials, objects  *)
(***************************************************************************)
EXTENDS Integers, Sequences, FiniteSets, TLC

\* ---- program constants ----
\* engine/setup.rs: const FRAMES_IN_FLIGHT: usize = 2
FRAMES_IN_FLIGHT == 2

\* ---- bounds of the model ----
\* render_frame calls that reach the swapchain check
MaxFrames == 4
\* largest minImageCount the surface reports
MaxMinImages == 2
\* MaterialIds issued
MaxMaterials == 2
\* slots of a frame synchronizer built on its own
MaxSlots == 4
\* advances of a frame synchronizer built on its own
MaxAdvances == 30

\* largest element count of an AllocatedBuffer, and longest slice written
MaxCount == 2
\* vk::Buffer objects created for AllocatedBuffers on their own
MaxAllocs == 2
\* ObjectIds issued
MaxObjects == 1
\* render_frame calls that reach the swapchain check, in a scene with objects
MaxSceneFrames == 1
\* add_object calls when the ids are followed
MaxIds == 3

VARIABLES
  pc,            \* position of the CPU thread inside the running operation
  frame_sync,    \* FrameSync
  fence_signaled,\* device state of every fence: handle -> signaled
  swapchain,     \* Engine.swapchain: <<>> is None, <<s>> is Some(s)
  materials,     \* Engine.materials: the registered MaterialIds
  next_material_id,
  queue,         \* submissions the GPU has not retired yet, oldest first
  cur_image,     \* next_frame's local swapchain_image_idx (0: none yet)
  result,        \* what the last finished operation returned
  event,         \* how the last render_frame call ended
  did_submit,    \* the running/last render_frame call submitted its frame
  did_present,   \* the running/last render_frame call released its image
  builds,        \* swapchains built so far
  slot_log,      \* frame_idx used by each frame, in order
  buf,           \* an AllocatedBuffer<u16> value: <<>> is no value, <<b>> is b
  memory,        \* the allocator's allocations, by handle: liveness and bytes
  vk_buffers,    \* vk::Buffer objects created so far
  call,          \* the running/last AllocatedBuffer or object call: its
                 \* operation, its arguments, self as it was at the call, its
                 \* locals
  objects,       \* Engine.objects: ObjectId -> Object
  next_object_id,
  command_buffers,\* Engine.command_buffers: slot -> the draws recorded in it
  released       \* what Drop for Engine has released and destroyed, in order

bufVars == <<buf, memory, vk_buffers, call, released>>
sceneVars == <<objects, next_object_id, command_buffers>>

vars == <<pc, frame_sync, fence_signaled, swapchain, materials, next_material_id,
          queue, cur_image, result, event, did_submit, did_present, builds, slot_log,
          buf, memory, vk_buffers, call, objects, next_object_id, command_buffers,
          released>>

\* ---- handles ----
NullFence == 0

Range(lo, hi) == [i \in 1..(hi - lo + 1) |-> lo + i - 1]

\* FrameSync::new creates the image-available semaphores, then the
\* render-finished semaphores, then the fences, frames_in_flight of each;
\* handles are numbered in creation order.
FrameSyncNew(n) ==
  [ image_available_semaphores |-> Range(1, n),
    render_finished_semaphores |-> Range(n + 1, 2 * n),
    in_flight_fences           |-> Range(2 * n + 1, 3 * n),
    frames_in_flight           |-> n,
    freed                      |-> FALSE,
    frame_idx                  |-> 0 ]

\* the slot a handle was created for
SlotOf(h, n) == (h - 1) % n

\* Rust vectors are 0-based, sequences 1-based
fence(fs) == fs.in_flight_fences[fs.frame_idx + 1]
image_available(fs) == fs.image_available_semaphores[fs.frame_idx + 1]
render_finished(fs) == fs.render_finished_semaphores[fs.frame_idx + 1]

NextIdxStuck(fs) == (fs.frame_idx + fs.frames_in_flight) % fs.frames_in_flight
\* FrameSync::next_frame: self.frame_idx = (self.frame_idx + 1) % self.frames_in_flight
NextIdx(fs) == (fs.frame_idx + 1) % fs.frames_in_flight

FrameSyncNextFrame(fs) == [fs EXCEPT !.frame_idx = NextIdx(fs)]

Fences == {FrameSyncNew(FRAMES_IN_FLIGHT).in_flight_fences[i] : i \in 1..FRAMES_IN_FLIGHT}

\* ---- swapchain ----
ImageCountNoMaximum(min_image_count, max_image_count) == min_image_count + 1
\* Swapchain::new: min_image_count + 1, cut down to max_image_count when there is one
ImageCount(min_image_count, max_image_count) ==
  IF max_image_count > 0 /\ min_image_count + 1 > max_image_count
    THEN max_image_count
    ELSE min_image_count + 1

\* SwapChainImage::new: in_flight starts as the null fence
SwapChainImageNew == [in_flight |-> NullFence, freed |-> FALSE]

SwapchainNewNoPipelines(n_images, mats) ==
  [ images       |-> [i \in 1..n_images |-> SwapChainImageNew],
    pipelines    |-> [m \in {} |-> TRUE],
    depth_view   |-> TRUE,
    depth_mem    |-> TRUE,
    swapchain    |-> TRUE,
    render_pass  |-> TRUE,
    freed        |-> FALSE ]

\* Swapchain::new followed by add_pipeline for every registered material
SwapchainNew(n_images, mats) ==
  [ images       |-> [i \in 1..n_images |-> SwapChainImageNew],
    pipelines    |-> [m \in mats |-> TRUE],
    depth_view   |-> TRUE,
    depth_mem    |-> TRUE,
    swapchain    |-> TRUE,
    render_pass  |-> TRUE,
    freed        |-> FALSE ]

\* the creations of a swapchain build that can fail: Swapchain::new's depth
\* image, its memory and its view, the swapchain object and its image list,
\* the render pass, the k-th SwapChainImage, and next_frame's add_pipeline of
\* a registered material
BuildStages ==
  {"build_depth_failed", "build_swapchain_failed", "build_render_pass_failed",
   "build_image_failed", "build_pipeline_failed"}

\* the failing `?` drops a value that was not freed: the SwapChainImages
\* collected before the k-th one, or the Swapchain that add_pipeline was
\* called on
BuildDropsUnfreed(stage, k) ==
  \/ stage = "build_image_failed" /\ k > 1
  \/ stage = "build_pipeline_failed"

NextIdSame(id) == id
\* load_material: self.next_material_id += 1; add_object: self.next_object_id += 1
NextId(id) == id + 1

Live == swapchain # <<>>
Sc == swapchain[1]

IsNoneAlways == TRUE
\* Engine::next_frame: if self.swapchain.is_none()
IsNone == swapchain = <<>>

SwapchainKeptFreed == swapchain
\* Engine::invalidate_swapchain: self.swapchain = None
SwapchainNone == <<>>

\* next_frame lines 29-46 when a creation fails: every stage before the images
\* returns Err through `?` with no Swapchain or SwapChainImage value alive;
\* a drop of an unfreed value panics.  self.swapchain is not assigned.
SwapchainBuildFails ==
  \E min_image_count \in 1..MaxMinImages :
    \E max_image_count \in {0} \cup (min_image_count..MaxMinImages) :
      \E stage \in BuildStages, k \in 1..ImageCount(min_image_count, max_image_count) :
        /\ stage = "build_pipeline_failed" => materials # {}
        /\ event' = stage
        /\ IF BuildDropsUnfreed(stage, k)
             THEN result' = "panic" /\ pc' = "aborted"
             ELSE result' = "err" /\ pc' = pc

DeviceIdleNoWait == TRUE
\* device_wait_idle returns once the queue holds no unretired submission
DeviceIdle == queue = <<>>

\* ---- AllocatedBuffer<u16> ----
\* size_of::<u16>()
SizeOfT == 2

\* the values of T written in the model; 258 = 0x0102 tells the byte order
Elems == {0, 258}
Datas == UNION {[1..n -> Elems] : n \in 0..MaxCount}
Usages == {{"VERTEX_BUFFER"}, {"INDEX_BUFFER"}}

BytesLowOnly(x) == <<x % 256, x % 256>>
\* the bytes of one u16 in memory (little-endian)
Bytes(x) == <<x % 256, x \div 256>>

\* bytemuck::cast_slice::<u16, u8>(data)
RECURSIVE cast_slice(_)
cast_slice(data) ==
  IF data = <<>> THEN <<>> ELSE Bytes(Head(data)) \o cast_slice(Tail(data))

\* MappedMemory::import: the bytes are copied to the start of the mapping
import(mapped, bytes) ==
  [i \in 1..Len(mapped) |-> IF i <= Len(bytes) THEN bytes[i] ELSE mapped[i]]

\* fresh memory holds anything
Garbage(n) == {[i \in 1..n |-> b] : b \in {0, 255}}

CountOkAlways(count) == TRUE
\* AllocatedBuffer::new: anyhow::ensure!(count > 0, ..)
CountOk(count) == count > 0

NoCall == [op |-> "none", count |-> 0, usage |-> {}, data |-> <<>>, self |-> <<>>,
           local |-> 0, id |-> 0]

\* HashMap::new()
NoObjects == [o \in {} |-> {}]

\* what cmd_copy_buffer(src, dst) can leave in dst: the source's bytes, and
\* anything at all when the source's memory was freed or the destination's was
CopiedBytes(src, dst) ==
  IF memory[src].live /\ memory[dst].live
    THEN {[i \in 1..Len(memory[dst].bytes) |->
             IF i <= Len(memory[src].bytes) THEN memory[src].bytes[i]
                                            ELSE memory[dst].bytes[i]]}
    ELSE {memory[dst].bytes} \cup Garbage(Len(memory[dst].bytes))

\* AllocatedBuffer::gpu_only: the value it returns
Promoted(b, h) ==
  [ buffer      |-> h,
    allocation  |-> <<h>>,
    create_info |-> b.create_info,
    dynamic     |-> FALSE,
    freed       |-> FALSE ]

BufPcs == {"new", "map", "free", "go_alloc", "go_submit", "go_wait", "go_free"}
ObjectPcs == {"ro_wait_idle", "ro_free_vertices", "ro_free_indices"}

RenderPcs == {"advance", "acquire", "wait_image", "record", "submit", "present", "map_ubo"}
FreePcs == {"sc_wait_idle", "sc_depth_view", "sc_depth_mem", "sc_pipelines",
            "sc_images", "sc_swapchain", "sc_render_pass", "sc_done"}

Init ==
  /\ pc = "idle"
  /\ frame_sync = FrameSyncNew(FRAMES_IN_FLIGHT)
  /\ fence_signaled = [f \in Fences |-> TRUE]   \* FenceCreateFlags::SIGNALED
  /\ swapchain = <<>>
  /\ materials = {}
  /\ next_material_id = 0
  /\ queue = <<>>
  /\ cur_image = 0
  /\ result = "none"
  /\ event = "none"
  /\ did_submit = FALSE
  /\ did_present = FALSE
  /\ builds = 0
  /\ slot_log = <<>>
  /\ buf = <<>>
  /\ memory = <<>>
  /\ vk_buffers = 0
  /\ call = NoCall
  /\ objects = NoObjects
  /\ next_object_id = 0
  /\ command_buffers = [s \in 0..(frame_sync.frames_in_flight - 1) |-> {}]
  /\ released = <<>>

\* ---- Engine::next_frame (render_frame), engine/frame.rs ----

\* Lines 16-46: the XR frame wait, the should_render early return, and the
\* lazy swapchain build from the material registry.
RenderFrameBegin ==
  /\ pc = "idle"
  /\ Len(slot_log) < MaxFrames
  /\ did_submit' = FALSE
  /\ did_present' = FALSE
  /\ cur_image' = 0
  /\ \E should_render \in BOOLEAN :
       IF ~should_render
         THEN /\ result' = "ok"
              /\ event' = "skipped"
              /\ UNCHANGED <<pc, swapchain, builds>>
         ELSE IF IsNone
           THEN \/ /\ SwapchainBuildFails
                   /\ UNCHANGED <<swapchain, builds>>
                \/ /\ \E min_image_count \in 1..MaxMinImages :
                      \E max_image_count \in {0} \cup (min_image_count..MaxMinImages) :
                        swapchain' = <<SwapchainNew(
                                        ImageCount(min_image_count, max_image_count),
                                        materials)>>
                   /\ builds' = builds + 1
                   /\ pc' = "advance"
                   /\ result' = "none"
                   /\ event' = "none"
           ELSE /\ pc' = "advance"
                /\ result' = "none"
                /\ event' = "none"
                /\ UNCHANGED <<swapchain, builds>>
  /\ UNCHANGED <<frame_sync, fence_signaled, materials, next_material_id, queue, slot_log>>
  /\ UNCHANGED <<bufVars, sceneVars>>

\* Line 52: self.frame_sync.next_frame
RenderFrameAdvance ==
  /\ pc = "advance"
  /\ frame_sync' = FrameSyncNextFrame(frame_sync)
  /\ slot_log' = Append(slot_log, frame_sync'.frame_idx)
  /\ pc' = "acquire"
  /\ UNCHANGED <<fence_signaled, swapchain, materials, next_material_id, queue,
                 cur_image, result, event, did_submit, did_present, builds>>
  /\ UNCHANGED <<bufVars, sceneVars>>

\* Lines 55-56 with Swapchain::next_image lines 42-56: acquire_next_image_khr.
\* The platform hands out any image index, or reports out-of-date; next_frame
\* has no branch for that report and never calls invalidate_swapchain: the call
\* site's only exit is `?`, which leaves the swapchain as it is.
RenderFrameAcquire ==
  /\ pc = "acquire"
  /\ \/ /\ result' = "err"
        /\ event' = "stale_acquire"
        /\ pc' = "idle"
        /\ UNCHANGED cur_image
     \/ /\ \E i \in 1..Len(Sc.images) : cur_image' = i
        /\ pc' = "wait_image"
        /\ UNCHANGED <<result, event>>
  /\ UNCHANGED <<frame_sync, fence_signaled, swapchain, materials, next_material_id,
                 queue, did_submit, did_present, builds, slot_log>>
  /\ UNCHANGED <<bufVars, sceneVars>>

\* Swapchain::next_image lines 58-70: wait for the image's last-writer fence
\* when it is not null, then make this frame's fence the last writer.
RenderFrameWaitImage ==
  /\ pc = "wait_image"
  /\ LET f == Sc.images[cur_image].in_flight
     IN IF f = NullFence THEN TRUE ELSE fence_signaled[f]
  /\ swapchain' = <<[Sc EXCEPT !.images[cur_image].in_flight = fence(frame_sync)]>>
  /\ pc' = "record"
  /\ UNCHANGED <<frame_sync, fence_signaled, materials, next_material_id, queue,
                 cur_image, result, event, did_submit, did_present, builds, slot_log>>
  /\ UNCHANGED <<bufVars, sceneVars>>

\* Lines 101-106: the loop visits every entry of swapchain.pipelines and calls
\* cmd_bind_pipeline for it once, whether or not an object uses it: the
\* number of binds per MaterialId in a frame recorded for swapchain sc
BindsIn(sc) == [m \in DOMAIN sc.pipelines |-> 1]

DrawsUnderEveryPipeline(sc) ==
  UNION { { [ object    |-> o,
              pipeline  |-> p,
              vertices  |-> objects[o].vertices.buffer,
              indices   |-> objects[o].indices.buffer,
              n_indices |-> objects[o].n_indices ] :
            o \in DOMAIN objects } :
          p \in DOMAIN sc.pipelines }

\* Lines 117-157: inside the loop over the pipelines, every object whose
\* material is the pipeline's id gets its vertex and index buffers bound and
\* one cmd_draw_indexed of its n_indices
DrawsIn(sc) ==
  UNION { { [ object    |-> o,
              pipeline  |-> p,
              vertices  |-> objects[o].vertices.buffer,
              indices   |-> objects[o].indices.buffer,
              n_indices |-> objects[o].n_indices ] :
            o \in {x \in DOMAIN objects : objects[x].material = p} } :
          p \in DOMAIN sc.pipelines }

Draws == DrawsIn(Sc)

\* Lines 59-163: reset_command_buffer and re-record command_buffers[frame_idx]
RenderFrameRecord ==
  /\ pc = "record"
  /\ command_buffers' = [command_buffers EXCEPT ![frame_sync.frame_idx] = Draws]
  /\ pc' = "submit"
  /\ UNCHANGED <<frame_sync, fence_signaled, swapchain, materials, next_material_id,
                 queue, cur_image, result, event, did_submit, did_present, builds,
                 slot_log>>
  /\ UNCHANGED <<bufVars, objects, next_object_id>>

RenderFrameSubmitNoFence ==
  /\ pc = "submit"
  /\ fence_signaled' = [fence_signaled EXCEPT ![fence(frame_sync)] = FALSE]
  /\ queue' = Append(queue, [slot  |-> frame_sync.frame_idx,
                             fence |-> NullFence,
                             image |-> cur_image,
                             gen   |-> builds,
                             copy  |-> <<>>,
                             draws |-> command_buffers[frame_sync.frame_idx],
                             wait_semaphores   |-> <<>>,
                             signal_semaphores |-> <<>>])
  /\ did_submit' = TRUE
  /\ pc' = "present"
  /\ UNCHANGED <<frame_sync, swapchain, materials, next_material_id, cur_image,
                 result, event, did_present, builds, slot_log>>
  /\ UNCHANGED <<bufVars, sceneVars>>

\* Lines 175-184: reset_fences, then queue_submit signalling the slot's fence.
\* The SubmitInfo is built from the command buffer alone: it names no
\* semaphore to wait on and none to signal.
RenderFrameSubmit ==
  /\ pc = "submit"
  /\ fence_signaled' = [fence_signaled EXCEPT ![fence(frame_sync)] = FALSE]
  /\ queue' = Append(queue, [slot  |-> frame_sync.frame_idx,
                             fence |-> fence(frame_sync),
                             image |-> cur_image,
                             gen   |-> builds,
                             copy  |-> <<>>,
                             draws |-> command_buffers[frame_sync.frame_idx],
                             wait_semaphores   |-> <<>>,
                             signal_semaphores |-> <<>>])
  /\ did_submit' = TRUE
  /\ pc' = "present"
  /\ UNCHANGED <<frame_sync, swapchain, materials, next_material_id, cur_image,
                 result, event, did_present, builds, slot_log>>
  /\ UNCHANGED <<bufVars, sceneVars>>

\* Lines 186-187: swapchain.swapchain.release_image()?  An out-of-date report
\* leaves through `?`.
RenderFramePresent ==
  /\ pc = "present"
  /\ \/ /\ result' = "err"
        /\ event' = "stale_present"
        /\ pc' = "idle"
        /\ UNCHANGED did_present
     \/ /\ did_present' = TRUE
        /\ pc' = "map_ubo"
        /\ UNCHANGED <<result, event>>
  /\ UNCHANGED <<frame_sync, fence_signaled, swapchain, materials, next_material_id,
                 queue, cur_image, did_submit, builds, slot_log>>
  /\ UNCHANGED <<bufVars, sceneVars>>

\* Lines 189-230: map camera_ubos[frame_idx], end the XR frame, Ok(())
RenderFrameMapUbo ==
  /\ pc = "map_ubo"
  /\ result' = "ok"
  /\ event' = "rendered"
  /\ pc' = "idle"
  /\ UNCHANGED <<frame_sync, fence_signaled, swapchain, materials, next_material_id,
                 queue, cur_image, did_submit, did_present, builds, slot_log>>
  /\ UNCHANGED <<bufVars, sceneVars>>

\* ---- the GPU ----
\* The oldest submission retires and signals its fence (fence signal
\* operations of one queue happen in submission order).
\* A retiring copy (cmd_copy_buffer) has written the source's bytes into the
\* destination; reading a source whose memory was freed is undefined: the
\* destination ends with the stale bytes or keeps what it had.
GpuRetire ==
  /\ queue # <<>>
  /\ LET s == Head(queue)
     IN /\ fence_signaled' = IF s.fence = NullFence
                               THEN fence_signaled
                               ELSE [fence_signaled EXCEPT ![s.fence] = TRUE]
        /\ IF s.copy = <<>>
             THEN UNCHANGED memory
             ELSE \E bytes \in CopiedBytes(s.copy[1], s.copy[2]) :
                    memory' = [memory EXCEPT ![s.copy[2]].bytes = bytes]
  /\ queue' = Tail(queue)
  /\ UNCHANGED <<pc, frame_sync, swapchain, materials, next_material_id, cur_image,
                 result, event, did_submit, did_present, builds, slot_log,
                 buf, vk_buffers, call, objects, next_object_id, command_buffers, released>>

\* ---- Engine::invalidate_swapchain and Swapchain::free ----
FreeUnchanged == UNCHANGED <<frame_sync, fence_signaled, materials, next_material_id,
                             queue, cur_image, did_submit, did_present, builds,
                             slot_log, buf, memory, vk_buffers, call, objects,
                             next_object_id, command_buffers, released>>

\* invalidate_swapchain lines 19-21: if let Some(swapchain) = &mut self.swapchain
InvalidateSwapchain ==
  /\ pc = "idle"
  /\ IF Live
       THEN /\ pc' = "sc_wait_idle"
            /\ result' = "none"
            /\ event' = "none"
       ELSE /\ result' = "ok"
            /\ event' = "invalidated"
            /\ UNCHANGED pc
  /\ UNCHANGED swapchain
  /\ FreeUnchanged

\* Swapchain::free line 263: device_wait_idle().result()?
SwapchainFreeWaitIdle ==
  /\ pc = "sc_wait_idle"
  /\ \/ /\ DeviceIdle
        /\ pc' = "sc_depth_view"
        /\ UNCHANGED <<result, event>>
     \/ /\ result' = "err"
        /\ event' = "wait_idle_err"
        /\ pc' = "idle"
  /\ UNCHANGED swapchain
  /\ FreeUnchanged

\* line 264: destroy_image_view(depth_image_view); destroying a view that
\* was destroyed before is undefined: the call returns or the process dies
SwapchainFreeDepthView ==
  /\ pc = "sc_depth_view"
  /\ IF Sc.depth_view
       THEN /\ swapchain' = <<[Sc EXCEPT !.depth_view = FALSE]>>
            /\ pc' = "sc_depth_mem"
            /\ UNCHANGED <<result, event>>
       ELSE /\ UNCHANGED swapchain
            /\ \/ /\ pc' = "sc_depth_mem"
                  /\ UNCHANGED <<result, event>>
               \/ /\ result' = "panic"
                  /\ event' = "invalid_handle"
                  /\ pc' = "aborted"
  /\ FreeUnchanged

\* line 267: allocator.free(device, self.depth_image_mem.take().unwrap()):
\* the Option is empty once a free has taken the allocation out of it
SwapchainFreeDepthMem ==
  /\ pc = "sc_depth_mem"
  /\ IF Sc.depth_mem
       THEN /\ swapchain' = <<[Sc EXCEPT !.depth_mem = FALSE]>>
            /\ pc' = "sc_pipelines"
            /\ UNCHANGED <<result, event>>
       ELSE /\ result' = "panic"
            /\ event' = "unwrap_none"
            /\ pc' = "aborted"
            /\ UNCHANGED swapchain
  /\ FreeUnchanged

SwapchainFreePipelinesAndMaterials ==
  /\ pc = "sc_pipelines"
  /\ swapchain' = <<[Sc EXCEPT !.pipelines = [m \in DOMAIN Sc.pipelines |-> FALSE]]>>
  /\ materials' = {}
  /\ pc' = "sc_images"
  /\ UNCHANGED <<result, event>>
  /\ UNCHANGED <<frame_sync, fence_signaled, next_material_id, queue, cur_image,
                 did_submit, did_present, builds, slot_log, buf, memory, vk_buffers,
                 call, objects, next_object_id, command_buffers, released>>

\* lines 269-271: every pipeline is freed and stays in the map
SwapchainFreePipelines ==
  /\ pc = "sc_pipelines"
  /\ swapchain' = <<[Sc EXCEPT !.pipelines = [m \in DOMAIN Sc.pipelines |-> FALSE]]>>
  /\ pc' = "sc_images"
  /\ UNCHANGED <<result, event>>
  /\ FreeUnchanged

\* lines 273-275: the images are drained out of the vector and freed
SwapchainFreeImages ==
  /\ pc = "sc_images"
  /\ swapchain' = <<[Sc EXCEPT !.images = <<>>]>>
  /\ pc' = "sc_swapchain"
  /\ UNCHANGED <<result, event>>
  /\ FreeUnchanged

\* line 278: destroy_swapchain_khr
SwapchainFreeSwapchain ==
  /\ pc = "sc_swapchain"
  /\ swapchain' = <<[Sc EXCEPT !.swapchain = FALSE]>>
  /\ pc' = "sc_render_pass"
  /\ UNCHANGED <<result, event>>
  /\ FreeUnchanged

SwapchainFreeRenderPassUnmarked ==
  /\ pc = "sc_render_pass"
  /\ swapchain' = <<[Sc EXCEPT !.render_pass = FALSE]>>
  /\ pc' = "sc_done"
  /\ UNCHANGED <<result, event>>
  /\ FreeUnchanged

\* lines 279-281: destroy_render_pass; self.freed = true
SwapchainFreeRenderPass ==
  /\ pc = "sc_render_pass"
  /\ swapchain' = <<[Sc EXCEPT !.render_pass = FALSE, !.freed = TRUE]>>
  /\ pc' = "sc_done"
  /\ UNCHANGED <<result, event>>
  /\ FreeUnchanged

\* invalidate_swapchain lines 22-23: self.swapchain = None; Ok(())
InvalidateSwapchainDone ==
  /\ pc = "sc_done"
  /\ swapchain' = SwapchainNone
  /\ result' = "ok"
  /\ event' = "invalidated"
  /\ pc' = "idle"
  /\ FreeUnchanged

\* ---- the material registry, engine/internals.rs ----
\* load_material lines 28-42
LoadMaterial ==
  /\ pc = "idle"
  /\ next_material_id < MaxMaterials
  /\ next_material_id' = NextId(next_material_id)
  /\ \/ \* Material::new fails: the id is spent
        /\ result' = "err"
        /\ event' = "load_err"
        /\ UNCHANGED <<pc, materials, swapchain>>
     \/ \* add_pipeline fails: the material is dropped unfreed and panics
        /\ Live
        /\ result' = "panic"
        /\ event' = "load_panic"
        /\ pc' = "aborted"
        /\ UNCHANGED <<materials, swapchain>>
     \/ /\ materials' = materials \cup {next_material_id}
        /\ UNCHANGED pc
        /\ swapchain' = IF Live
                          THEN <<[Sc EXCEPT !.pipelines =
                                   [m \in DOMAIN Sc.pipelines \cup {next_material_id} |->
                                      IF m = next_material_id THEN TRUE ELSE Sc.pipelines[m]]]>>
                          ELSE swapchain
        /\ result' = "ok"
        /\ event' = "loaded"
  /\ UNCHANGED <<frame_sync, fence_signaled, queue, cur_image, did_submit,
                 did_present, builds, slot_log>>
  /\ UNCHANGED <<bufVars, sceneVars>>

RemoveEveryPipeline(sc, id) ==
  [sc EXCEPT !.pipelines = [m \in {} |-> TRUE]]
\* Swapchain::remove_pipeline: the pipeline of id leaves the map (and is freed)
RemovePipeline(sc, id) ==
  [sc EXCEPT !.pipelines = [m \in DOMAIN sc.pipelines \ {id} |-> sc.pipelines[m]]]

\* unload_material lines 44-51
UnloadMaterial ==
  /\ pc = "idle"
  /\ \E id \in 0..(MaxMaterials - 1) :
       /\ materials' = materials \ {id}
       /\ swapchain' = IF Live THEN <<RemovePipeline(Sc, id)>> ELSE swapchain
  /\ result' = "ok"
  /\ event' = "unloaded"
  /\ UNCHANGED <<pc, frame_sync, fence_signaled, next_material_id, queue, cur_image,
                 did_submit, did_present, builds, slot_log>>
  /\ UNCHANGED <<bufVars, sceneVars>>

Next ==
  \/ RenderFrameBegin
  \/ RenderFrameAdvance
  \/ RenderFrameAcquire
  \/ RenderFrameWaitImage
  \/ RenderFrameRecord
  \/ RenderFrameSubmit
  \/ RenderFramePresent
  \/ RenderFrameMapUbo
  \/ GpuRetire
  \/ InvalidateSwapchain
  \/ SwapchainFreeWaitIdle
  \/ SwapchainFreeDepthView
  \/ SwapchainFreeDepthMem
  \/ SwapchainFreePipelines
  \/ SwapchainFreeImages
  \/ SwapchainFreeSwapchain
  \/ SwapchainFreeRenderPass
  \/ InvalidateSwapchainDone
  \/ LoadMaterial
  \/ UnloadMaterial

Spec == Init /\ [][Next]_vars

\* swapchains torn down so far
Teardowns == builds - Len(swapchain)

\* ---- the frame loop under a GPU that makes progress ----
\* next_frame and invalidate_swapchain of an engine without materials
NextFrames ==
  \/ RenderFrameBegin
  \/ RenderFrameAdvance
  \/ RenderFrameAcquire
  \/ RenderFrameWaitImage
  \/ RenderFrameRecord
  \/ RenderFrameSubmit
  \/ RenderFramePresent
  \/ RenderFrameMapUbo
  \/ GpuRetire
  \/ InvalidateSwapchain
  \/ SwapchainFreeWaitIdle
  \/ SwapchainFreeDepthView
  \/ SwapchainFreeDepthMem
  \/ SwapchainFreePipelines
  \/ SwapchainFreeImages
  \/ SwapchainFreeSwapchain
  \/ SwapchainFreeRenderPass
  \/ InvalidateSwapchainDone

\* The queue executes what was submitted to it, and wait_for_fences returns
\* once its fence is signaled: both steps happen when they stay possible.
SpecFrames ==
  /\ Init
  /\ [][NextFrames]_vars
  /\ WF_vars(GpuRetire)
  /\ WF_vars(RenderFrameWaitImage)

\* ---- a frame synchronizer on its own: FrameSync::new(n), then next_frame ----
InitSync ==
  /\ pc = "idle"
  /\ \E n \in 1..MaxSlots : frame_sync = FrameSyncNew(n)
  /\ fence_signaled = [f \in {frame_sync.in_flight_fences[i] :
                                 i \in 1..frame_sync.frames_in_flight} |-> TRUE]
  /\ swapchain = <<>>
  /\ materials = {}
  /\ next_material_id = 0
  /\ queue = <<>>
  /\ cur_image = 0
  /\ result = "none"
  /\ event = "none"
  /\ did_submit = FALSE
  /\ did_present = FALSE
  /\ builds = 0
  /\ slot_log = <<>>
  /\ buf = <<>>
  /\ memory = <<>>
  /\ vk_buffers = 0
  /\ call = NoCall
  /\ objects = NoObjects
  /\ next_object_id = 0
  /\ command_buffers = [s \in 0..(frame_sync.frames_in_flight - 1) |-> {}]
  /\ released = <<>>

SyncNextFrame ==
  /\ pc = "idle"
  /\ Len(slot_log) < MaxAdvances
  /\ frame_sync' = FrameSyncNextFrame(frame_sync)
  /\ slot_log' = Append(slot_log, frame_sync'.frame_idx)
  /\ UNCHANGED <<pc, fence_signaled, swapchain, materials, next_material_id, queue,
                 cur_image, result, event, did_submit, did_present, builds>>
  /\ UNCHANGED <<bufVars, sceneVars>>

SyncUnchanged == UNCHANGED <<swapchain, materials, next_material_id, queue, cur_image,
                             did_submit, did_present, builds, slot_log, buf, memory,
                             vk_buffers, call, objects, next_object_id,
                             command_buffers, released>>

\* FrameSync::free lines 57-71: every semaphore and every fence is destroyed;
\* no field of the synchronizer is assigned
FrameSyncFree ==
  /\ pc = "idle"
  /\ fence_signaled' = [f \in {} |-> TRUE]
  /\ result' = "ok"
  /\ event' = "sync_freed"
  /\ UNCHANGED <<pc, frame_sync>>
  /\ SyncUnchanged

\* Drop for FrameSync lines 74-80: the owner lets the synchronizer go
FrameSyncDrop ==
  /\ pc = "idle"
  /\ IF ~frame_sync.freed
       THEN /\ result' = "panic"
            /\ event' = "drop_panic"
            /\ pc' = "aborted"
       ELSE /\ result' = "ok"
            /\ event' = "dropped"
            /\ pc' = "sync_dropped"
  /\ UNCHANGED <<frame_sync, fence_signaled>>
  /\ SyncUnchanged

NextSync ==
  \/ SyncNextFrame
  \/ FrameSyncFree
  \/ FrameSyncDrop

SpecSync == InitSync /\ [][NextSync]_vars

\* ---- an AllocatedBuffer on its own, allocated_buffer.rs ----
EngineUnchanged == UNCHANGED <<frame_sync, fence_signaled, swapchain, materials,
                               next_material_id, cur_image, did_submit, did_present,
                               builds, slot_log, objects, next_object_id,
                               command_buffers, released>>

IsDynamicAlways(b) == TRUE
\* AllocatedBuffer::map: if !self.dynamic { bail!(..) }
IsDynamic(b) == b.dynamic

DropPanicsNever(b) == FALSE
\* Drop for AllocatedBuffer: if !self.freed { panic!(..) }
DropPanics(b) == ~b.freed

QueueIdleNoWait == TRUE
\* queue_wait_idle returns once the queue holds no unretired submission
QueueIdle == queue = <<>>

\* allocator.free(device, allocation): the bytes are gone with the memory
FreeAllocation(h) ==
  [memory EXCEPT ![h].live = FALSE, ![h].frees = @ + 1, ![h].bytes = <<>>]

\* the caller binds the arguments of AllocatedBuffer::new
BufCallNew ==
  /\ pc = "idle"
  /\ buf = <<>>
  /\ vk_buffers < MaxAllocs
  /\ \E count \in 0..MaxCount, usage \in Usages :
       call' = [NoCall EXCEPT !.op = "new", !.count = count, !.usage = usage]
  /\ pc' = "new"
  /\ result' = "none"
  /\ event' = "none"
  /\ UNCHANGED <<buf, memory, vk_buffers, queue, released>>
  /\ EngineUnchanged

\* AllocatedBuffer::new lines 25-40
AllocatedBufferNew ==
  /\ pc = "new"
  /\ IF ~CountOk(call.count)
       THEN /\ result' = "err"
            /\ event' = "invalid_argument"
            /\ UNCHANGED <<buf, memory, vk_buffers, released>>
       ELSE \/ \* create_buffer fails
               /\ result' = "err"
               /\ event' = "device_error"
               /\ UNCHANGED <<buf, memory, vk_buffers, released>>
            \/ \* allocator.allocate fails
               /\ vk_buffers' = vk_buffers + 1
               /\ result' = "err"
               /\ event' = "device_error"
               /\ UNCHANGED <<buf, memory, released>>
            \/ /\ vk_buffers' = vk_buffers + 1
               /\ \E g \in Garbage(SizeOfT * call.count) :
                    memory' = Append(memory, [live |-> TRUE, frees |-> 0, bytes |-> g,
                                              device_local |-> FALSE])
               /\ buf' = <<[ buffer      |-> Len(memory) + 1,
                             allocation  |-> <<Len(memory) + 1>>,
                             create_info |-> [size  |-> SizeOfT * call.count,
                                              usage |-> call.usage \cup {"TRANSFER_SRC"}],
                             dynamic     |-> TRUE,
                             freed       |-> FALSE ]>>
               /\ result' = "ok"
               /\ event' = "created"
  /\ pc' = "idle"
  /\ UNCHANGED <<call, queue>>
  /\ EngineUnchanged

\* the caller binds the slice passed to AllocatedBuffer::map
BufCallMap ==
  /\ pc = "idle"
  /\ buf # <<>>
  /\ \E data \in Datas :
       call' = [NoCall EXCEPT !.op = "map", !.data = data, !.self = buf]
  /\ pc' = "map"
  /\ result' = "none"
  /\ event' = "none"
  /\ UNCHANGED <<buf, memory, vk_buffers, queue, released>>
  /\ EngineUnchanged

\* AllocatedBuffer::map lines 44-55
AllocatedBufferMap ==
  /\ pc = "map"
  /\ LET b == buf[1]
     IN IF ~IsDynamic(b)
          THEN /\ result' = "err"
               /\ event' = "immutable_buffer"
               /\ pc' = "idle"
               /\ UNCHANGED memory
          ELSE IF b.allocation = <<>>
            THEN \* .expect("Use-after-free")
                 /\ result' = "panic"
                 /\ event' = "use_after_free"
                 /\ pc' = "aborted"
                 /\ UNCHANGED memory
            ELSE \/ \* mapping the memory fails
                    /\ result' = "err"
                    /\ event' = "device_error"
                    /\ pc' = "idle"
                    /\ UNCHANGED memory
                 \/ LET h == b.allocation[1]
                        bytes == cast_slice(call.data)
                    IN IF Len(bytes) > Len(memory[h].bytes)
                         THEN \* the slice does not fit the mapping
                              /\ result' = "panic"
                              /\ event' = "import_overflow"
                              /\ pc' = "aborted"
                              /\ UNCHANGED memory
                         ELSE /\ memory' = [memory EXCEPT
                                              ![h].bytes = import(@, bytes)]
                              /\ pc' = "idle"
                              /\ \/ result' = "ok" /\ event' = "mapped"
                                 \/ \* unmap fails after the copy
                                    result' = "err" /\ event' = "unmap_error"
  /\ UNCHANGED <<buf, vk_buffers, call, queue, released>>
  /\ EngineUnchanged

BufCallFree ==
  /\ pc = "idle"
  /\ buf # <<>>
  /\ call' = [NoCall EXCEPT !.op = "free", !.self = buf]
  /\ pc' = "free"
  /\ result' = "none"
  /\ event' = "none"
  /\ UNCHANGED <<buf, memory, vk_buffers, queue, released>>
  /\ EngineUnchanged

\* AllocatedBuffer::free lines 106-114
AllocatedBufferFree ==
  /\ pc = "free"
  /\ \/ \* device_wait_idle fails
        /\ result' = "err"
        /\ event' = "wait_idle_err"
        /\ pc' = "idle"
        /\ UNCHANGED <<buf, memory, released>>
     \/ /\ DeviceIdle
        /\ IF buf[1].allocation = <<>>
             THEN \* .expect("Already deallocated")
                  /\ result' = "panic"
                  /\ event' = "already_deallocated"
                  /\ pc' = "aborted"
                  /\ UNCHANGED <<buf, memory, released>>
             ELSE /\ memory' = FreeAllocation(buf[1].allocation[1])
                  /\ buf' = <<[buf[1] EXCEPT !.allocation = <<>>, !.freed = TRUE]>>
                  /\ result' = "ok"
                  /\ event' = "freed"
                  /\ pc' = "idle"
  /\ UNCHANGED <<vk_buffers, call, queue, released>>
  /\ EngineUnchanged

\* Drop for AllocatedBuffer: the owner lets the value go
AllocatedBufferDrop ==
  /\ pc = "idle"
  /\ buf # <<>>
  /\ call' = [NoCall EXCEPT !.op = "drop", !.self = buf]
  /\ IF DropPanics(buf[1])
       THEN /\ result' = "panic"
            /\ event' = "drop_panic"
            /\ pc' = "aborted"
            /\ UNCHANGED buf
       ELSE /\ result' = "ok"
            /\ event' = "dropped"
            /\ buf' = <<>>
            /\ UNCHANGED pc
  /\ UNCHANGED <<memory, vk_buffers, queue, released>>
  /\ EngineUnchanged

\* the caller moves the buffer into AllocatedBuffer::gpu_only
BufCallGpuOnly ==
  /\ pc = "idle"
  /\ buf # <<>>
  /\ vk_buffers < MaxAllocs
  /\ call' = [NoCall EXCEPT !.op = "gpu_only", !.self = buf]
  /\ pc' = "go_alloc"
  /\ result' = "none"
  /\ event' = "none"
  /\ UNCHANGED <<buf, memory, vk_buffers, queue, released>>
  /\ EngineUnchanged

\* an early `?` return of gpu_only drops self
GpuOnlyErr ==
  IF DropPanics(buf[1])
    THEN /\ result' = "panic"
         /\ event' = "drop_panic"
         /\ pc' = "aborted"
         /\ UNCHANGED buf
    ELSE /\ result' = "err"
         /\ event' = "device_error"
         /\ pc' = "idle"
         /\ buf' = <<>>

\* gpu_only lines 59-72: usage |= TRANSFER_DST, create the new buffer and
\* allocate device-local memory for it
GpuOnlyAlloc ==
  /\ pc = "go_alloc"
  /\ \/ /\ GpuOnlyErr
        /\ UNCHANGED <<memory, vk_buffers, call, released>>
     \/ /\ vk_buffers' = vk_buffers + 1
        /\ GpuOnlyErr
        /\ UNCHANGED <<memory, call>>
     \/ /\ vk_buffers' = vk_buffers + 1
        /\ \E g \in Garbage(buf[1].create_info.size) :
             memory' = Append(memory, [live |-> TRUE, frees |-> 0, bytes |-> g,
                                       device_local |-> TRUE])
        /\ buf' = <<[buf[1] EXCEPT !.create_info.usage = @ \cup {"TRANSFER_DST"}]>>
        /\ call' = [call EXCEPT !.local = Len(memory) + 1]
        /\ pc' = "go_submit"
        /\ UNCHANGED <<result, event>>
  /\ UNCHANGED queue
  /\ EngineUnchanged

\* gpu_only lines 74-88: record the one-shot copy and submit it without a fence
GpuOnlySubmit ==
  /\ pc = "go_submit"
  /\ \/ /\ GpuOnlyErr
        /\ UNCHANGED queue
     \/ /\ queue' = Append(queue, [slot  |-> -1,
                                   fence |-> NullFence,
                                   image |-> 0,
                                   gen   |-> 0,
                                   copy  |-> <<buf[1].buffer, call.local>>,
                                   draws |-> {},
                                   wait_semaphores   |-> <<>>,
                                   signal_semaphores |-> <<>>])
        /\ pc' = "go_wait"
        /\ UNCHANGED <<buf, result, event, released>>
  /\ UNCHANGED <<memory, vk_buffers, call, released>>
  /\ EngineUnchanged

\* gpu_only lines 89-90: queue_wait_idle
GpuOnlyWait ==
  /\ pc = "go_wait"
  /\ \/ GpuOnlyErr
     \/ /\ QueueIdle
        /\ pc' = "go_free"
        /\ UNCHANGED <<buf, result, event, released>>
  /\ UNCHANGED <<memory, vk_buffers, call, queue, released>>
  /\ EngineUnchanged

\* gpu_only lines 93-102: self.free(..)?, then the new value is returned and
\* the freed self is dropped
GpuOnlyFree ==
  /\ pc = "go_free"
  /\ \/ /\ GpuOnlyErr
        /\ UNCHANGED memory
     \/ /\ DeviceIdle
        /\ IF buf[1].allocation = <<>>
             THEN /\ result' = "panic"
                  /\ event' = "already_deallocated"
                  /\ pc' = "aborted"
                  /\ UNCHANGED <<buf, memory, released>>
             ELSE /\ memory' = FreeAllocation(buf[1].allocation[1])
                  /\ buf' = <<Promoted(buf[1], call.local)>>
                  /\ result' = "ok"
                  /\ event' = "promoted"
                  /\ pc' = "idle"
  /\ UNCHANGED <<vk_buffers, call, queue, released>>
  /\ EngineUnchanged

NextBuf ==
  \/ BufCallNew
  \/ AllocatedBufferNew
  \/ BufCallMap
  \/ AllocatedBufferMap
  \/ BufCallFree
  \/ AllocatedBufferFree
  \/ AllocatedBufferDrop
  \/ BufCallGpuOnly
  \/ GpuOnlyAlloc
  \/ GpuOnlySubmit
  \/ GpuOnlyWait
  \/ GpuOnlyFree
  \/ GpuRetire

SpecBuf == Init /\ [][NextBuf]_vars

\* ---- the object registry, engine/mod.rs ----
\* the (vertices.len(), indices.len()) of the meshes passed to add_object
Meshes == {<<0, 2>>, <<1, 0>>, <<1, 2>>}

\* the elements add_object writes into a buffer of count elements
SceneData(count) == [i \in 1..count |-> 258]

\* AllocatedBuffer::new(count, ..) followed by map(data) on memory mem: the
\* memory afterwards and the buffer value
NewMapped(mem, count, usage) ==
  [ memory |-> Append(mem, [live |-> TRUE, frees |-> 0,
                            bytes |-> cast_slice(SceneData(count)),
                            device_local |-> FALSE]),
    value  |-> [ buffer      |-> Len(mem) + 1,
                 allocation  |-> <<Len(mem) + 1>>,
                 create_info |-> [size  |-> SizeOfT * count,
                                  usage |-> usage \cup {"TRANSFER_SRC"}],
                 dynamic     |-> TRUE,
                 freed       |-> FALSE ] ]

\* gpu_only run to its end on buffer value b over memory mem with an idle
\* queue: the new allocation holds the copied bytes, the original is freed
GpuOnlyDone(mem, b) ==
  LET h == Len(mem) + 1
      withNew == Append(mem, [live |-> TRUE, frees |-> 0,
                              bytes |-> mem[b.buffer].bytes,
                              device_local |-> TRUE])
  IN [ memory |-> [withNew EXCEPT ![b.buffer].live = FALSE,
                                  ![b.buffer].frees = @ + 1,
                                  ![b.buffer].bytes = <<>>],
       value  |-> Promoted([b EXCEPT !.create_info.usage = @ \cup {"TRANSFER_DST"}], h) ]

\* add_object lines 109-123: the vertex buffer, promoted unless dynamic
VertexBuffer(mem, count, dynamic) ==
  LET nb == NewMapped(mem, count, {"VERTEX_BUFFER"})
  IN IF dynamic THEN nb ELSE GpuOnlyDone(nb.memory, nb.value)

\* add_object lines 128-140: the index buffer, always promoted
IndexBuffer(mem, count) ==
  LET nb == NewMapped(mem, count, {"INDEX_BUFFER"})
  IN GpuOnlyDone(nb.memory, nb.value)

\* Engine::add_object lines 93-153.  gpu_only blocks in queue_wait_idle until
\* the queue has drained, so the steps after it happen with an idle queue.
\* MaterialId's field is private: the caller passes an id load_material issued.
\* call keeps vertices.len() (the count of the first new) and the local
\* n_indices = indices.len().
AddObjectUpTo(max_objects) ==
  /\ pc = "idle"
  /\ next_object_id < max_objects
  /\ next_object_id' = NextId(next_object_id)
  /\ \E mesh \in Meshes, material \in 0..(next_material_id - 1), dynamic \in BOOLEAN :
       LET id == next_object_id
           vb == VertexBuffer(memory, mesh[1], dynamic)
           ib == IndexBuffer(vb.memory, mesh[2])
       IN /\ call' = [NoCall EXCEPT !.op = "add_object", !.count = mesh[1],
                                    !.local = mesh[2]]
          /\ IF ~CountOk(mesh[1])
               THEN \* the vertex buffer's new fails: nothing was created
                    /\ result' = "err"
                    /\ event' = "invalid_argument"
                    /\ UNCHANGED <<pc, objects, memory, vk_buffers, released>>
               ELSE IF ~CountOk(mesh[2])
                 THEN \* the index buffer's new fails and `?` drops the
                      \* vertex buffer, which was not freed
                      /\ dynamic \/ DeviceIdle
                      /\ memory' = vb.memory
                      /\ vk_buffers' = vk_buffers + Len(vb.memory) - Len(memory)
                      /\ result' = "panic"
                      /\ event' = "drop_panic"
                      /\ pc' = "aborted"
                      /\ UNCHANGED objects
                 ELSE \/ \* the first create_buffer or allocate fails
                         /\ result' = "err"
                         /\ event' = "device_error"
                         /\ UNCHANGED <<pc, objects, memory, vk_buffers, released>>
                      \/ \* a later device call fails: `?` drops a buffer
                         \* that was not freed
                         /\ memory' = NewMapped(memory, mesh[1], {"VERTEX_BUFFER"}).memory
                         /\ vk_buffers' = vk_buffers + 1
                         /\ result' = "panic"
                         /\ event' = "drop_panic"
                         /\ pc' = "aborted"
                         /\ UNCHANGED objects
                      \/ /\ DeviceIdle
                         /\ memory' = ib.memory
                         /\ vk_buffers' = vk_buffers + Len(ib.memory) - Len(memory)
                         /\ objects' = [o \in DOMAIN objects \cup {id} |->
                                          IF o = id
                                            THEN [ material  |-> material,
                                                   indices   |-> ib.value,
                                                   vertices  |-> vb.value,
                                                   n_indices |-> mesh[2],
                                                   transform |-> "identity" ]
                                            ELSE objects[o]]
                         /\ result' = "ok"
                         /\ event' = "object_added"
                         /\ UNCHANGED pc
  /\ UNCHANGED <<frame_sync, fence_signaled, swapchain, materials, next_material_id,
                 queue, cur_image, did_submit, did_present, builds, slot_log, buf,
                 command_buffers, released>>

AddObject == AddObjectUpTo(MaxObjects)

ObjectUnchanged == UNCHANGED <<frame_sync, fence_signaled, swapchain, materials,
                               next_material_id, queue, cur_image, did_submit,
                               did_present, builds, slot_log, buf, vk_buffers,
                               next_object_id, command_buffers, released>>

\* the caller passes an ObjectId to remove_object
RemoveObjectCall ==
  /\ pc = "idle"
  /\ \E id \in 0..(MaxObjects - 1) :
       call' = [NoCall EXCEPT !.op = "remove_object", !.id = id]
  /\ pc' = "ro_wait_idle"
  /\ result' = "none"
  /\ event' = "none"
  /\ UNCHANGED <<objects, memory>>
  /\ ObjectUnchanged

\* remove_object lines 164-167: device_wait_idle()?, then the object is taken
\* out of the registry
RemoveObjectWaitIdle ==
  /\ pc = "ro_wait_idle"
  /\ \/ /\ result' = "err"
        /\ event' = "wait_idle_err"
        /\ pc' = "idle"
        /\ call' = NoCall
        /\ UNCHANGED objects
     \/ /\ DeviceIdle
        /\ IF call.id \in DOMAIN objects
             THEN /\ objects' = [o \in DOMAIN objects \ {call.id} |-> objects[o]]
                  /\ call' = [call EXCEPT !.self = <<objects[call.id]>>]
                  /\ pc' = "ro_free_vertices"
                  /\ UNCHANGED <<result, event>>
             ELSE /\ result' = "ok"
                  /\ event' = "removed_nothing"
                  /\ pc' = "idle"
                  /\ call' = NoCall
                  /\ UNCHANGED objects
  /\ UNCHANGED memory
  /\ ObjectUnchanged

\* AllocatedBuffer::free on field f of the object taken out of the registry;
\* an Err leaves remove_object through `?` and drops the object with a buffer
\* that was not freed
RemoveObjectFree(f, next_pc) ==
  LET b == call.self[1][f]
  IN \/ /\ result' = "panic"
        /\ event' = "drop_panic"
        /\ pc' = "aborted"
        /\ UNCHANGED <<memory, call>>
     \/ /\ DeviceIdle
        /\ IF b.allocation = <<>>
             THEN /\ result' = "panic"
                  /\ event' = "already_deallocated"
                  /\ pc' = "aborted"
                  /\ UNCHANGED <<memory, call>>
             ELSE /\ memory' = FreeAllocation(b.allocation[1])
                  /\ pc' = next_pc
                  /\ IF next_pc = "idle"
                       THEN \* the object, both buffers freed, is dropped
                            /\ call' = NoCall
                            /\ result' = "ok"
                            /\ event' = "removed"
                       ELSE /\ call' = [call EXCEPT !.self[1][f].allocation = <<>>,
                                                    !.self[1][f].freed = TRUE]
                            /\ UNCHANGED <<result, event>>

\* remove_object line 168: object.vertices.free(..)?
RemoveObjectFreeVertices ==
  /\ pc = "ro_free_vertices"
  /\ RemoveObjectFree("vertices", "ro_free_indices")
  /\ UNCHANGED objects
  /\ ObjectUnchanged

\* remove_object lines 169-171: object.indices.free(..)?; Ok(())
RemoveObjectFreeIndices ==
  /\ pc = "ro_free_indices"
  /\ RemoveObjectFree("indices", "idle")
  /\ UNCHANGED objects
  /\ ObjectUnchanged

\* the matrices passed to set_transform; add_object starts an object with
\* Matrix4::identity()
Transforms == {"identity", "moved"}

\* ---- a Swapchain on its own, swapchain.rs ----
\* the swapchains its owner builds
MaxBuilds == 2

SwapchainUnchanged ==
  UNCHANGED <<frame_sync, fence_signaled, materials, next_material_id, queue,
              cur_image, did_submit, did_present, slot_log, buf, memory,
              vk_buffers, objects, next_object_id, command_buffers, released>>

\* Swapchain::new lines 73-233 for the surface capabilities it queries
\* (max_image_count is 0 or at least min_image_count); call keeps them
SwapchainNewCall ==
  /\ pc = "idle"
  /\ ~Live
  /\ builds < MaxBuilds
  /\ \E min_image_count \in 1..MaxMinImages :
       \E max_image_count \in {0} \cup (min_image_count..MaxMinImages) :
         /\ call' = [NoCall EXCEPT !.op = "new", !.count = min_image_count,
                                   !.local = max_image_count]
         /\ swapchain' = <<SwapchainNew(ImageCount(min_image_count, max_image_count),
                                        {})>>
  /\ builds' = builds + 1
  /\ result' = "ok"
  /\ event' = "built"
  /\ UNCHANGED pc
  /\ SwapchainUnchanged

\* Swapchain::add_pipeline lines 235-253: HashMap::insert hands back the
\* pipeline that was under the id and it is dropped on the spot
SwapchainAddPipeline ==
  /\ pc = "idle"
  /\ Live
  /\ \E id \in 0..(MaxMaterials - 1) :
       /\ call' = [NoCall EXCEPT !.op = "add_pipeline", !.id = id]
       /\ \/ \* Pipeline::new fails
             /\ result' = "err"
             /\ event' = "build_pipeline_failed"
             /\ UNCHANGED <<pc, swapchain>>
          \/ /\ swapchain' = <<[Sc EXCEPT !.pipelines =
                                  [m \in DOMAIN Sc.pipelines \cup {id} |->
                                     IF m = id THEN TRUE ELSE Sc.pipelines[m]]]>>
             /\ IF id \in DOMAIN Sc.pipelines /\ Sc.pipelines[id]
                  THEN /\ result' = "panic"
                       /\ event' = "drop_panic"
                       /\ pc' = "aborted"
                  ELSE /\ result' = "ok"
                       /\ event' = "pipeline_added"
                       /\ UNCHANGED pc
  /\ UNCHANGED builds
  /\ SwapchainUnchanged

\* Swapchain::remove_pipeline lines 255-259
SwapchainRemovePipeline ==
  /\ pc = "idle"
  /\ Live
  /\ \E id \in 0..(MaxMaterials - 1) :
       /\ call' = [NoCall EXCEPT !.op = "remove_pipeline", !.id = id]
       /\ swapchain' = <<RemovePipeline(Sc, id)>>
  /\ result' = "ok"
  /\ event' = "pipeline_removed"
  /\ UNCHANGED <<pc, builds>>
  /\ SwapchainUnchanged

\* the owner calls Swapchain::free
SwapchainFreeCall ==
  /\ pc = "idle"
  /\ Live
  /\ call' = [NoCall EXCEPT !.op = "free", !.self = swapchain]
  /\ pc' = "sc_wait_idle"
  /\ result' = "none"
  /\ event' = "none"
  /\ UNCHANGED <<swapchain, builds>>
  /\ SwapchainUnchanged

\* Swapchain::free line 282: Ok(())
SwapchainFreeDone ==
  /\ pc = "sc_done"
  /\ pc' = "idle"
  /\ result' = "ok"
  /\ event' = "swapchain_freed"
  /\ UNCHANGED swapchain
  /\ FreeUnchanged

\* the owner lets the Swapchain go: Drop for Swapchain lines 358-364, then
\* the drop of its fields, Drop for Pipeline (pipeline.rs:178-184) for every
\* pipeline in the map and Drop for SwapChainImage (swapchain.rs:350-356)
\* for every image in the vector
SwapchainDrop ==
  /\ pc = "idle"
  /\ Live
  /\ call' = [NoCall EXCEPT !.op = "drop", !.self = swapchain]
  /\ IF \/ ~Sc.freed
        \/ \E m \in DOMAIN Sc.pipelines : Sc.pipelines[m]
        \/ \E i \in 1..Len(Sc.images) : ~Sc.images[i].freed
       THEN /\ result' = "panic"
            /\ event' = "drop_panic"
            /\ pc' = "aborted"
            /\ UNCHANGED swapchain
       ELSE /\ result' = "ok"
            /\ event' = "dropped"
            /\ swapchain' = <<>>
            /\ UNCHANGED pc
  /\ UNCHANGED builds
  /\ SwapchainUnchanged

NextSwapchain ==
  \/ SwapchainNewCall
  \/ SwapchainAddPipeline
  \/ SwapchainRemovePipeline
  \/ SwapchainFreeCall
  \/ SwapchainFreeWaitIdle
  \/ SwapchainFreeDepthView
  \/ SwapchainFreeDepthMem
  \/ SwapchainFreePipelines
  \/ SwapchainFreeImages
  \/ SwapchainFreeSwapchain
  \/ SwapchainFreeRenderPass
  \/ SwapchainFreeDone
  \/ SwapchainDrop

SpecSwapchain == Init /\ [][NextSwapchain]_vars

SetTransformOfAll ==
  /\ pc = "idle"
  /\ \E id \in 0..(MaxObjects - 1), transform \in Transforms :
       /\ call' = [NoCall EXCEPT !.op = "set_transform", !.id = id]
       /\ objects' = [o \in DOMAIN objects |->
                        [objects[o] EXCEPT !.transform = transform]]
  /\ result' = "ok"
  /\ event' = "transform_set"
  /\ UNCHANGED <<pc, memory>>
  /\ ObjectUnchanged

\* Engine::set_transform lines 174-178: the object's transform is replaced
\* when the id is registered; the function returns nothing
SetTransform ==
  /\ pc = "idle"
  /\ \E id \in 0..(MaxObjects - 1), transform \in Transforms :
       /\ call' = [NoCall EXCEPT !.op = "set_transform", !.id = id]
       /\ objects' = IF id \in DOMAIN objects
                       THEN [objects EXCEPT ![id].transform = transform]
                       ELSE objects
  /\ result' = "ok"
  /\ event' = "transform_set"
  /\ UNCHANGED <<pc, memory>>
  /\ ObjectUnchanged

\* the vertex slices passed to reupload_vertices: every length, new content
Reuploads == {data \in Datas : \A i \in 1..Len(data) : data[i] = 0}

\* Engine::reupload_vertices lines 155-160: AllocatedBuffer::map on the
\* vertex buffer of the object when the id is registered, Ok(()) otherwise.
\* map (allocated_buffer.rs:43-56) refuses a buffer that is not dynamic, then
\* maps the memory, copies the slice to its start and unmaps.
ReuploadVertices ==
  /\ pc = "idle"
  /\ \E id \in 0..(MaxObjects - 1), data \in Reuploads :
       /\ call' = [NoCall EXCEPT !.op = "reupload_vertices", !.id = id, !.data = data]
       /\ IF id \notin DOMAIN objects
            THEN /\ result' = "ok"
                 /\ event' = "reuploaded_nothing"
                 /\ UNCHANGED <<pc, memory>>
            ELSE LET b == objects[id].vertices
                 IN IF ~IsDynamic(b)
                      THEN /\ result' = "err"
                           /\ event' = "immutable_buffer"
                           /\ UNCHANGED <<pc, memory>>
                      ELSE IF b.allocation = <<>>
                        THEN /\ result' = "panic"
                             /\ event' = "use_after_free"
                             /\ pc' = "aborted"
                             /\ UNCHANGED memory
                        ELSE \/ \* mapping the memory fails
                                /\ result' = "err"
                                /\ event' = "device_error"
                                /\ UNCHANGED <<pc, memory>>
                             \/ LET h == b.allocation[1]
                                    bytes == cast_slice(data)
                                IN IF Len(bytes) > Len(memory[h].bytes)
                                     THEN \* the slice does not fit the mapping
                                          /\ result' = "panic"
                                          /\ event' = "import_overflow"
                                          /\ pc' = "aborted"
                                          /\ UNCHANGED memory
                                     ELSE /\ memory' = [memory EXCEPT
                                                          ![h].bytes = import(@, bytes)]
                                          /\ UNCHANGED pc
                                          /\ \/ result' = "ok" /\ event' = "mapped"
                                             \/ \* unmap fails after the copy
                                                result' = "err" /\ event' = "unmap_error"
  /\ UNCHANGED objects
  /\ ObjectUnchanged

\* the swapchains the lazy build of next_frame lines 29-46 can leave
BuiltSwapchains ==
  IF IsNone
    THEN UNION { { SwapchainNew(ImageCount(min_image_count, max_image_count),
                                materials) :
                     max_image_count \in {0} \cup (min_image_count..MaxMinImages) } :
                   min_image_count \in 1..MaxMinImages }
    ELSE {Sc}

\* Engine::next_frame from its first line to its return as one step, in a
\* scene with objects.  Between two operations of the engine only the GPU
\* runs, and the one thing a call waits for is the last-writer fence of the
\* image it acquired: that wait is the guard of the step.
SceneRenderFrame ==
  /\ pc = "idle"
  /\ Len(slot_log) < MaxSceneFrames
  /\ \/ \* lines 19-26: should_render is false
        /\ result' = "ok"
        /\ event' = "skipped"
        /\ did_submit' = FALSE
        /\ did_present' = FALSE
        /\ cur_image' = 0
        /\ UNCHANGED <<pc, frame_sync, fence_signaled, swapchain, queue, builds,
                       slot_log, command_buffers>>
     \/ \* the build fails
        /\ IsNone
        /\ SwapchainBuildFails
        /\ did_submit' = FALSE
        /\ did_present' = FALSE
        /\ cur_image' = 0
        /\ UNCHANGED <<frame_sync, fence_signaled, swapchain, queue, builds,
                       slot_log, command_buffers>>
     \/ \E built \in BuiltSwapchains :
          LET fs == FrameSyncNextFrame(frame_sync)
              gen == IF IsNone THEN builds + 1 ELSE builds
          IN /\ frame_sync' = fs
             /\ slot_log' = Append(slot_log, fs.frame_idx)
             /\ builds' = gen
             /\ UNCHANGED pc
             /\ \/ \* the acquisition reports out-of-date
                   /\ swapchain' = <<built>>
                   /\ result' = "err"
                   /\ event' = "stale_acquire"
                   /\ did_submit' = FALSE
                   /\ did_present' = FALSE
                   /\ cur_image' = 0
                   /\ UNCHANGED <<fence_signaled, queue, command_buffers>>
                \/ \E i \in 1..Len(built.images) :
                     /\ LET f == built.images[i].in_flight
                        IN IF f = NullFence THEN TRUE ELSE fence_signaled[f]
                     /\ swapchain' = <<[built EXCEPT !.images[i].in_flight = fence(fs)]>>
                     /\ cur_image' = i
                     /\ command_buffers' = [command_buffers EXCEPT
                                              ![fs.frame_idx] = DrawsIn(built)]
                     /\ fence_signaled' = [fence_signaled EXCEPT ![fence(fs)] = FALSE]
                     /\ queue' = Append(queue, [slot  |-> fs.frame_idx,
                                                fence |-> fence(fs),
                                                image |-> i,
                                                gen   |-> gen,
                                                copy  |-> <<>>,
                                                draws |-> DrawsIn(built),
                                                wait_semaphores   |-> <<>>,
                                                signal_semaphores |-> <<>>])
                     /\ did_submit' = TRUE
                     /\ \/ \* the present reports out-of-date
                           /\ result' = "err"
                           /\ event' = "stale_present"
                           /\ did_present' = FALSE
                        \/ /\ result' = "ok"
                           /\ event' = "rendered"
                           /\ did_present' = TRUE
  /\ UNCHANGED <<materials, next_material_id, objects, next_object_id>>
  /\ UNCHANGED bufVars

\* an engine on which load_material has succeeded n times and nothing else
\* was called
SceneInit(n) ==
  /\ pc = "idle"
  /\ frame_sync = FrameSyncNew(FRAMES_IN_FLIGHT)
  /\ fence_signaled = [f \in Fences |-> TRUE]
  /\ swapchain = <<>>
  /\ materials = 0..(n - 1)
  /\ next_material_id = n
  /\ queue = <<>>
  /\ cur_image = 0
  /\ result = "ok"
  /\ event = "loaded"
  /\ did_submit = FALSE
  /\ did_present = FALSE
  /\ builds = 0
  /\ slot_log = <<>>
  /\ buf = <<>>
  /\ memory = <<>>
  /\ vk_buffers = 0
  /\ call = NoCall
  /\ objects = NoObjects
  /\ next_object_id = 0
  /\ command_buffers = [s \in 0..(frame_sync.frames_in_flight - 1) |-> {}]
  /\ released = <<>>

\* a scene whose materials are unloaded while objects are added and frames
\* are rendered
InitScene == SceneInit(MaxMaterials)

NextScene ==
  \/ SceneRenderFrame
  \/ GpuRetire
  \/ UnloadMaterial
  \/ AddObject

SpecScene == InitScene /\ [][NextScene]_vars

\* a scene of one material whose objects are added, rendered and removed
InitRemove == SceneInit(1)

NextRemove ==
  \/ SceneRenderFrame
  \/ GpuRetire
  \/ AddObject
  \/ RemoveObjectCall
  \/ RemoveObjectWaitIdle
  \/ RemoveObjectFreeVertices
  \/ RemoveObjectFreeIndices

SpecRemove == InitRemove /\ [][NextRemove]_vars

\* a scene of one material whose objects are added and moved while frames are
\* rendered and the swapchain is invalidated
NextInvalidate ==
  \/ SceneRenderFrame
  \/ GpuRetire
  \/ AddObject
  \/ SetTransform
  \/ InvalidateSwapchain
  \/ SwapchainFreeWaitIdle
  \/ SwapchainFreeDepthView
  \/ SwapchainFreeDepthMem
  \/ SwapchainFreePipelines
  \/ SwapchainFreeImages
  \/ SwapchainFreeSwapchain
  \/ SwapchainFreeRenderPass
  \/ InvalidateSwapchainDone

SpecInvalidate == InitRemove /\ [][NextInvalidate]_vars

\* an engine without a swapchain whose materials are loaded and unloaded and
\* whose objects are added and removed
AddObjectIds == AddObjectUpTo(MaxIds)

\* a scene of one material whose objects are added, moved, rewritten and
\* removed and whose materials are unloaded, by ids registered or not
NextObjects ==
  \/ AddObjectIds
  \/ SetTransform
  \/ ReuploadVertices
  \/ RemoveObjectCall
  \/ RemoveObjectWaitIdle
  \/ RemoveObjectFreeVertices
  \/ RemoveObjectFreeIndices
  \/ UnloadMaterial

SpecObjects == InitRemove /\ [][NextObjects]_vars

NextIds ==
  \/ LoadMaterial
  \/ UnloadMaterial
  \/ AddObjectIds
  \/ RemoveObjectCall
  \/ RemoveObjectWaitIdle
  \/ RemoveObjectFreeVertices
  \/ RemoveObjectFreeIndices

SpecIds == Init /\ [][NextIds]_vars

\* ---- Drop for Engine, engine/unsetup.rs ----
DropPcs == {"ed_objects", "ed_materials", "ed_swapchain", "ed_ubos", "ed_frame_sync",
            "ed_destroy", "ed_fields", "engine_dropped"}

\* one entry of the teardown's log
Released(kind, id) == [kind |-> kind, id |-> id]

\* the log's entries of a kind
ReleasedIds(kind) == {released[i].id : i \in {j \in 1..Len(released) : released[j].kind = kind}}

\* Swapchain::free run to its end on sc
SwapchainFreed(sc) ==
  [sc EXCEPT !.depth_view = FALSE, !.depth_mem = FALSE,
             !.pipelines = [m \in DOMAIN sc.pipelines |-> FALSE],
             !.images = <<>>, !.swapchain = FALSE, !.render_pass = FALSE,
             !.freed = TRUE]

DropUnchanged ==
  UNCHANGED <<frame_sync, materials, next_material_id, queue, cur_image, did_submit,
              did_present, builds, slot_log, buf, vk_buffers, call, next_object_id,
              command_buffers>>

\* the engine's owner lets it go; line 6: the ids of the objects are collected
EngineDropBegin ==
  /\ pc = "idle"
  /\ pc' = "ed_objects"
  /\ result' = "none"
  /\ event' = "none"
  /\ UNCHANGED <<objects, memory, swapchain, fence_signaled, released>>
  /\ DropUnchanged

EngineDropObjectSkipped ==
  /\ pc = "ed_objects"
  /\ pc' = "ed_materials"
  /\ UNCHANGED <<result, event, objects, memory, swapchain, fence_signaled, released>>
  /\ DropUnchanged

\* lines 7-9: self.remove_object(id).unwrap() for the collected ids, in the
\* order the HashMap gave them.  remove_object waits for the device, takes the
\* object out and frees its vertices, then its indices; an Err, from the wait
\* or from a free (the vertices may be freed by then), panics in unwrap
EngineDropObject ==
  /\ pc = "ed_objects"
  /\ IF DOMAIN objects = {}
       THEN /\ pc' = "ed_materials"
            /\ UNCHANGED <<result, event, objects, memory, released>>
       ELSE \E id \in DOMAIN objects :
              LET v == objects[id].vertices.allocation[1]
                  i == objects[id].indices.allocation[1]
              IN \/ /\ result' = "panic"
                    /\ event' = "unwrap_err"
                    /\ pc' = "aborted"
                    /\ \/ UNCHANGED <<objects, memory, released>>
                       \/ /\ DeviceIdle
                          /\ objects' = [o \in DOMAIN objects \ {id} |-> objects[o]]
                          /\ memory' = FreeAllocation(v)
                          /\ released' = Append(released, Released("vertices", v))
                 \/ /\ DeviceIdle
                    /\ objects' = [o \in DOMAIN objects \ {id} |-> objects[o]]
                    /\ memory' = [FreeAllocation(v) EXCEPT ![i].live = FALSE,
                                                            ![i].frees = @ + 1,
                                                            ![i].bytes = <<>>]
                    /\ released' = released \o <<Released("vertices", v),
                                                  Released("indices", i)>>
                    /\ UNCHANGED <<pc, result, event>>
  /\ UNCHANGED <<swapchain, fence_signaled>>
  /\ DropUnchanged

\* lines 10-12: material.free for every material of the registry, which
\* keeps them
EngineDropMaterials ==
  /\ pc = "ed_materials"
  /\ LET rest == materials \ ReleasedIds("material")
     IN IF rest = {}
          THEN /\ pc' = "ed_swapchain"
               /\ UNCHANGED released
          ELSE /\ \E m \in rest : released' = Append(released, Released("material", m))
               /\ UNCHANGED pc
  /\ UNCHANGED <<result, event, objects, memory, swapchain, fence_signaled>>
  /\ DropUnchanged

\* lines 13-15: swapchain.free(..).unwrap() when there is a swapchain; the
\* swapchain stays in its field
EngineDropSwapchain ==
  /\ pc = "ed_swapchain"
  /\ IF Live
       THEN \/ /\ result' = "panic"
               /\ event' = "unwrap_err"
               /\ pc' = "aborted"
               /\ UNCHANGED <<swapchain, released>>
            \/ /\ DeviceIdle
               /\ swapchain' = <<SwapchainFreed(Sc)>>
               /\ released' = Append(released, Released("swapchain", builds))
               /\ pc' = "ed_ubos"
               /\ UNCHANGED <<result, event>>
       ELSE /\ pc' = "ed_ubos"
            /\ UNCHANGED <<result, event, swapchain, released>>
  /\ UNCHANGED <<objects, memory, fence_signaled>>
  /\ DropUnchanged

\* lines 16-18: ubo.free(..).unwrap() for the uniform buffer of every slot;
\* AllocatedBuffer::free waits for the device first
EngineDropUbos ==
  /\ pc = "ed_ubos"
  /\ \/ /\ result' = "panic"
        /\ event' = "unwrap_err"
        /\ pc' = "aborted"
        /\ UNCHANGED released
     \/ /\ DeviceIdle
        /\ released' = released \o [s \in 1..frame_sync.frames_in_flight |->
                                      Released("ubo", s - 1)]
        /\ pc' = "ed_frame_sync"
        /\ UNCHANGED <<result, event>>
  /\ UNCHANGED <<objects, memory, swapchain, fence_signaled>>
  /\ DropUnchanged

\* line 19: self.frame_sync.free(..), which destroys the semaphores and the
\* fences and assigns no field
EngineDropFrameSync ==
  /\ pc = "ed_frame_sync"
  /\ fence_signaled' = [f \in {} |-> TRUE]
  /\ released' = Append(released, Released("frame_sync", 0))
  /\ pc' = "ed_destroy"
  /\ UNCHANGED <<result, event, objects, memory, swapchain>>
  /\ DropUnchanged

\* lines 20-26: the descriptor set layout and pool, the command buffers and
\* their pool, the device, the surface and the instance
EngineDropDestroy ==
  /\ pc = "ed_destroy"
  /\ released' = released \o <<Released("descriptor_set_layout", 0),
                                Released("descriptor_pool", 0),
                                Released("command_buffers", 0),
                                Released("command_pool", 0),
                                Released("device", 0),
                                Released("surface", 0),
                                Released("instance", 0)>>
  /\ pc' = "ed_fields"
  /\ UNCHANGED <<result, event, objects, memory, swapchain, fence_signaled>>
  /\ DropUnchanged

\* after drop() has returned the fields are dropped; the materials, the
\* swapchain and its pipelines are freed by then, and Drop for FrameSync
\* (frame_sync.rs:74-80) looks at the synchronizer's freed
EngineDropFields ==
  /\ pc = "ed_fields"
  /\ IF ~frame_sync.freed
       THEN /\ result' = "panic"
            /\ event' = "drop_panic"
            /\ pc' = "aborted"
       ELSE /\ result' = "ok"
            /\ event' = "dropped"
            /\ pc' = "engine_dropped"
  /\ UNCHANGED <<objects, memory, swapchain, fence_signaled, released>>
  /\ DropUnchanged

\* a scene whose objects are added, rendered and removed until the engine is
\* dropped
NextDrop ==
  \/ SceneRenderFrame
  \/ GpuRetire
  \/ AddObject
  \/ RemoveObjectCall
  \/ RemoveObjectWaitIdle
  \/ RemoveObjectFreeVertices
  \/ RemoveObjectFreeIndices
  \/ EngineDropBegin
  \/ EngineDropObject
  \/ EngineDropMaterials
  \/ EngineDropSwapchain
  \/ EngineDropUbos
  \/ EngineDropFrameSync
  \/ EngineDropDestroy
  \/ EngineDropFields

\* two materials are loaded when the scene begins
InitDrop == SceneInit(2)

SpecDrop == InitDrop /\ [][NextDrop]_vars

\* ---- properties ----

TypeOK ==
  /\ pc \in {"idle", "aborted", "sync_dropped"} \cup RenderPcs \cup FreePcs \cup BufPcs
           \cup ObjectPcs \cup DropPcs
  /\ frame_sync.frame_idx \in Nat
  /\ Len(swapchain) <= 1

\* C1: when the command buffer of a slot has just been reset and re-recorded
\* (the frame is recorded and not yet submitted), no earlier frame submitted
\* on the same slot is still unretired, i.e. frame k's fence was signaled
\* before frame k+N began recording.
C1_RecordAfterSlotFence ==
  pc = "submit" =>
    \A i \in 1..Len(queue) : queue[i].slot # frame_sync.frame_idx

\* C2: the frames submitted and not yet retired never number more than the
\* frame slots.
C2_AtMostNInFlight == Len(queue) <= FRAMES_IN_FLIGHT

\* C3: no two submitted-and-unretired frames write the same presentable image.
C3_NoOverlappingImageWrites ==
  \A i, j \in 1..Len(queue) :
    (i # j /\ queue[i].gen = queue[j].gen) => queue[i].image # queue[j].image

\* C4 as stated: the k-th frame (counting from 1) uses slot (k - 1) mod N, so
\* the first frame uses slot 0.
C4_SlotsStartAtZero ==
  \A k \in 1..Len(slot_log) : slot_log[k] = (k - 1) % FRAMES_IN_FLIGHT

\* C4 amended: the k-th frame (counting from 1) uses slot k mod N: the cursor
\* starts at 0 and is advanced before its first use, so the first frame uses
\* slot 1 mod N and every later frame the following index modulo N.
C4_SlotsRoundRobin ==
  \A k \in 1..Len(slot_log) : slot_log[k] = k % FRAMES_IN_FLIGHT

C4_Witness == Len(slot_log) >= 3 /\ pc = "idle" /\ event = "rendered"

\* C5: every advance sets the cursor to (idx + 1) mod N and leaves the rest of
\* the synchronizer as it was; the cursor stays within 0..N-1; and the fence,
\* the image-available semaphore and the render-finished semaphore of the
\* current slot are the ones created for slot idx.
C5_Advance ==
  /\ [](LET n == frame_sync.frames_in_flight
        IN /\ frame_sync.frame_idx \in 0..(n - 1)
           /\ SlotOf(fence(frame_sync), n) = frame_sync.frame_idx
           /\ SlotOf(image_available(frame_sync), n) = frame_sync.frame_idx
           /\ SlotOf(render_finished(frame_sync), n) = frame_sync.frame_idx)
  /\ [][slot_log' # slot_log =>
          frame_sync' = [frame_sync EXCEPT
            !.frame_idx = (frame_sync.frame_idx + 1) % frame_sync.frames_in_flight]]_vars

C5_Witness ==
  /\ frame_sync.frames_in_flight = 3
  /\ Len(slot_log) = 4
  /\ frame_sync.frame_idx = 1

\* C6: a swapchain is built only when none is live, it goes away only by
\* invalidate_swapchain (never by a step of render_frame), and as long as no
\* swapchain was torn down at most one was built.
C6_BuiltAtMostOnce ==
  /\ [](Teardowns = 0 => builds <= 1)
  /\ [][/\ (builds' # builds => ~Live /\ Live' /\ builds' = builds + 1)
        /\ (Live /\ ~Live' => pc = "sc_done")]_vars

C6_Witness ==
  /\ pc = "idle"
  /\ event = "rendered"
  /\ Len(slot_log) >= 3
  /\ builds = 1
  /\ Live

\* C7: when render_frame ends on an out-of-date acquisition, the swapchain is
\* absent, nothing was submitted or presented for the frame, and the call
\* returned success.
C7_StaleAcquireRecovers ==
  (pc = "idle" /\ event = "stale_acquire") =>
    /\ ~Live
    /\ ~did_submit
    /\ ~did_present
    /\ result = "ok"

LivePipelines == IF Live THEN {m \in DOMAIN Sc.pipelines : Sc.pipelines[m]} ELSE {}
LiveImages == IF Live THEN {i \in 1..Len(Sc.images) : ~Sc.images[i].freed} ELSE {}

\* C8: after render_frame ended on an out-of-date acquisition no pipeline and
\* no image of the swapchain is live any more.
C8_StaleAcquireTearsDown ==
  (pc = "idle" /\ event = "stale_acquire") =>
    LivePipelines = {} /\ LiveImages = {}

\* C9: when render_frame ends on an out-of-date present, the swapchain is
\* absent and the call returned success.
C9_StalePresentRecovers ==
  (pc = "idle" /\ event = "stale_present") => (~Live /\ result = "ok")

\* some resource of the swapchain has been destroyed by Swapchain::free
SomethingDestroyed ==
  /\ Live
  /\ \/ ~Sc.depth_view
     \/ ~Sc.depth_mem
     \/ \E m \in DOMAIN Sc.pipelines : ~Sc.pipelines[m]
     \/ Sc.images = <<>>
     \/ ~Sc.swapchain
     \/ ~Sc.render_pass

\* C10: whenever a depth resource, a pipeline, a presentable image, the
\* render pass or the swapchain object has been destroyed by the teardown, no
\* submitted frame is unretired.
C10_IdleBeforeDestroy == SomethingDestroyed => queue = <<>>

C10_Witness == pc = "sc_done" /\ did_submit /\ Sc.freed

\* C11: between public operations the engine's swapchain is either absent or
\* present with none of its images, pipelines, depth resources, swapchain
\* object or render pass destroyed and not marked freed; this includes the
\* state an invalidation leaves when the teardown returned an error.
C11_NoHalfLiveSwapchain ==
  (pc = "idle" /\ Live) => (~SomethingDestroyed /\ ~Sc.freed)

\* an invalidation of a live swapchain with frames in flight returned an error
C11_Witness ==
  /\ pc = "idle"
  /\ event = "wait_idle_err"
  /\ result = "err"
  /\ Live
  /\ queue # <<>>

\* C12: whenever a swapchain is live, the MaterialIds that have a pipeline in
\* it are exactly the MaterialIds of the material registry, whatever
\* load_material, unload_material, render_frame and invalidation did before;
\* a generation that is built gets the registry as it is at build time.
C12_PipelinesMatchRegistry ==
  Live => DOMAIN Sc.pipelines = materials

\* a second generation, built after material 0 left the registry (or never
\* entered it) and material 1 entered it, has rendered a frame
C12_Witness ==
  /\ pc = "idle"
  /\ event = "rendered"
  /\ builds = 2
  /\ Live
  /\ materials = {1}
  /\ LivePipelines = {1}


C17_NewChecksCount ==
  [][(pc = "new" /\ queue' = queue) =>
       IF call.count = 0
         THEN /\ result' = "err"
              /\ event' = "invalid_argument"
              /\ buf' = buf
              /\ memory' = memory
              /\ vk_buffers' = vk_buffers
         ELSE result' = "ok" =>
                /\ buf' # <<>>
                /\ buf'[1].dynamic
                /\ ~buf'[1].freed
                /\ buf'[1].create_info.usage = call.usage \cup {"TRANSFER_SRC"}
                /\ buf'[1].create_info.size = SizeOfT * call.count
                /\ buf'[1].allocation = <<Len(memory) + 1>>
                /\ Len(memory') = Len(memory) + 1
                /\ memory'[Len(memory) + 1].live
                /\ vk_buffers' = vk_buffers + 1]_vars

C17_Witness ==
  /\ pc = "idle"
  /\ call.op = "new"
  /\ call.count = 0
  /\ result = "err"
  /\ buf = <<>>
  /\ vk_buffers = 0

\* C18: after a successful write of n elements to a dynamic buffer of n > 0
\* elements, reading the buffer's memory back as u16 values gives exactly the
\* written elements, whatever the memory held before (so a later write
\* replaces an earlier one).
C18_WriteReadBack ==
  (/\ pc = "idle"
   /\ call.op = "map"
   /\ result = "ok"
   /\ SizeOfT * Len(call.data) = buf[1].create_info.size) =>
     LET bytes == memory[buf[1].allocation[1]].bytes
     IN /\ Len(bytes) = SizeOfT * Len(call.data)
        /\ \A i \in 1..Len(call.data) :
             bytes[2 * i - 1] + 256 * bytes[2 * i] = call.data[i]

C18_Witness ==
  /\ pc = "idle"
  /\ call.op = "map"
  /\ result = "ok"
  /\ call.data = <<258, 0>>
  /\ buf[1].create_info.size = 4
  /\ memory[buf[1].allocation[1]].bytes = <<2, 1, 0, 0>>

\* C19: map on a buffer that is not dynamic (it came out of gpu_only) returns
\* the immutable-buffer error and changes neither the buffer nor any memory.
C19_ImmutableWrite ==
  [][(pc = "map" /\ queue' = queue /\ ~buf[1].dynamic) =>
       /\ result' = "err"
       /\ event' = "immutable_buffer"
       /\ pc' = "idle"
       /\ buf' = buf
       /\ memory' = memory]_vars

C19_Witness ==
  /\ pc = "idle"
  /\ call.op = "map"
  /\ call.data # <<>>
  /\ event = "immutable_buffer"
  /\ ~buf[1].dynamic
  /\ ~buf[1].freed
  /\ memory[buf[1].buffer].live

\* C20: gpu_only allocates the device-local buffer of the same size first,
\* then submits the copy, then waits for the queue to be idle, then frees the
\* original: the original's memory is released only in the last step, once,
\* with no copy pending and the new memory holding the original's bytes; the
\* value returned is non-dynamic, not freed and owns the new memory.
C20_PromoteOrder ==
  /\ [](pc \in {"go_submit", "go_wait", "go_free"} =>
          /\ memory[call.local].live
          /\ memory[call.local].device_local
          /\ Len(memory[call.local].bytes) = buf[1].create_info.size
          /\ (~call.self[1].freed => memory[buf[1].buffer].live))
  /\ [](pc = "go_submit" => queue = <<>>)
  /\ [](pc = "go_free" =>
          /\ queue = <<>>
          /\ (memory[buf[1].buffer].live =>
                memory[call.local].bytes = memory[buf[1].buffer].bytes))
  /\ []((pc = "idle" /\ event = "promoted") =>
          /\ ~buf[1].dynamic
          /\ ~buf[1].freed
          /\ buf[1].allocation = <<call.local>>
          /\ buf[1].create_info.size = call.self[1].create_info.size
          /\ memory[call.local].live
          /\ ~memory[call.self[1].buffer].live
          /\ memory[call.self[1].buffer].frees = 1)
  /\ [][(call.op = "gpu_only" /\
         \E h \in 1..Len(memory) : memory'[h].frees # memory[h].frees) =>
           /\ pc = "go_free"
           /\ queue = <<>>
           /\ memory'[buf[1].buffer].frees = 1
           /\ memory'[call.local].bytes = memory[buf[1].buffer].bytes]_vars

\* a buffer that held <<258, 0>> was promoted and the new memory holds it
C20_Witness ==
  /\ pc = "idle"
  /\ event = "promoted"
  /\ memory[buf[1].buffer].bytes = <<2, 1, 0, 0>>
  /\ memory[buf[1].buffer].device_local


\* C16: a frame synchronizer whose free() was called (its semaphores and
\* fences are destroyed) is dropped without abort.
C16_FreedSyncDropsCleanly ==
  (event \in {"dropped", "drop_panic"} /\ DOMAIN fence_signaled = {}) =>
    (pc # "aborted" /\ event = "dropped")

\* C16, the other half: a synchronizer whose free() was never called aborts
\* when it is dropped.
C16_UnfreedSyncDropAborts ==
  (event \in {"dropped", "drop_panic"} /\ DOMAIN fence_signaled # {}) =>
    (pc = "aborted" /\ event = "drop_panic")


\* the draws next_frame has to record for the registry as it is
ExpectedDraws ==
  { [ object    |-> o,
      pipeline  |-> objects[o].material,
      vertices  |-> objects[o].vertices.buffer,
      indices   |-> objects[o].indices.buffer,
      n_indices |-> objects[o].n_indices ] :
    o \in {x \in DOMAIN objects : objects[x].material \in materials} }

C14_RemoveWaitsIdle ==
  /\ [](\A i \in 1..Len(queue) : \A d \in queue[i].draws :
          memory[d.vertices].live /\ memory[d.indices].live)
  /\ [](\A h \in 1..Len(memory) : memory[h].frees <= 1)
  /\ [][(pc = "ro_wait_idle" /\ pc' = "ro_free_vertices") =>
          /\ queue = <<>>
          /\ call.id \in DOMAIN objects
          /\ DOMAIN objects' = DOMAIN objects \ {call.id}]_vars
  /\ [][(pc \in {"ro_free_vertices", "ro_free_indices"} /\ memory' # memory) =>
          queue = <<>>]_vars
  /\ [][(pc = "ro_free_indices" /\ pc' = "idle") =>
          LET v == call.self[1].vertices.buffer
              i == call.self[1].indices.buffer
          IN /\ call.id \notin DOMAIN objects'
             /\ memory'[v].frees = 1
             /\ memory'[i].frees = 1
             /\ ~memory'[v].live
             /\ ~memory'[i].live
             /\ \A h \in 1..Len(memory) : h \notin {v, i} => memory'[h] = memory[h]]_vars

\* an object that a submitted frame drew has been removed and both its
\* buffers are released
C14_Witness ==
  /\ pc = "idle"
  /\ event = "removed"
  /\ did_submit
  /\ \E s \in DOMAIN command_buffers : \E d \in command_buffers[s] :
       /\ d.object \notin DOMAIN objects
       /\ memory[d.vertices].frees = 1
       /\ memory[d.indices].frees = 1

\* the allocations some registered object owns
OwnedMemory ==
  UNION { {objects[o].vertices.buffer, objects[o].indices.buffer} : o \in DOMAIN objects }

\* C21: add_object with a non-empty vertex list and an empty index list
\* returns the invalid-argument error without abort, leaves the object
\* registry as it was and leaves no allocation live that no object owns.
C21_InvalidArgumentIsError ==
  (/\ call.op = "add_object"
   /\ call.count > 0
   /\ call.local = 0) =>
     /\ pc # "aborted"
     /\ event # "drop_panic"
     /\ \A h \in 1..Len(memory) : memory[h].live => h \in OwnedMemory

\* C22: a swapchain build in which a creation failed (a depth resource, the
\* swapchain object, the render pass, an image, a pipeline) has returned an
\* error to the caller of render_frame without abort and left the engine's
\* swapchain absent.
C22_BuildFailureIsError ==
  event \in BuildStages => (result = "err" /\ pc = "idle" /\ ~Live)

\* C23: every submitted frame signals the completion fence of its slot, which
\* was reset for it (it is unsignaled while the frame is unretired and no
\* later frame took the slot), waits on the image-available semaphore of its
\* slot and signals the render-finished semaphore of its slot.
C23_SubmitUsesSlotSemaphores ==
  \A i \in 1..Len(queue) :
    queue[i].copy = <<>> =>
      /\ queue[i].fence = frame_sync.in_flight_fences[queue[i].slot + 1]
      /\ queue[i].wait_semaphores =
           <<frame_sync.image_available_semaphores[queue[i].slot + 1]>>
      /\ queue[i].signal_semaphores =
           <<frame_sync.render_finished_semaphores[queue[i].slot + 1]>>

\* C23, the half that holds: the submit step resets the slot's fence and
\* appends the frame that signals that fence in the same step, so no wait and
\* no other submission of the CPU lies between the two.
C23_ResetThenSubmit ==
  [][(pc = "submit" /\ pc' = "present") =>
       /\ ~fence_signaled'[fence(frame_sync)]
       /\ Len(queue') = Len(queue) + 1
       /\ queue'[Len(queue')].fence = fence(frame_sync)
       /\ queue'[Len(queue')].slot = frame_sync.frame_idx]_vars

\* C24: when a render_frame call is about to write the view-projection into
\* the slot's uniform buffer, it has acquired its image and has not yet
\* submitted (nor presented) the frame; and a call that presented has
\* submitted before.
C24_UboWrittenBeforeSubmit ==
  /\ pc = "map_ubo" => (cur_image # 0 /\ ~did_submit /\ ~did_present)
  /\ did_present => did_submit

\* C24, the half that holds: the image is acquired before the uniform write,
\* and the frame is submitted before it is presented.
C24_SubmitBeforePresent ==
  /\ pc = "map_ubo" => cur_image # 0
  /\ pc = "present" => (did_submit /\ ~did_present)
  /\ did_present => did_submit

\* the registered materials that at least one registered object uses
MaterialsWithObjects ==
  {m \in materials : \E o \in DOMAIN objects : objects[o].material = m}

\* C25: the frame a render_frame call has just recorded and submitted bound
\* the pipeline of every material that has an object exactly once and bound
\* no pipeline of any other material.
C25_BindsOnlyUsedMaterials ==
  (pc = "idle" /\ event = "rendered") =>
    /\ DOMAIN BindsIn(Sc) = MaterialsWithObjects
    /\ \A m \in DOMAIN BindsIn(Sc) : BindsIn(Sc)[m] = 1

\* C25, what holds instead: the frame bound the pipeline of every registered
\* material exactly once, with or without objects.
C25_BindsEveryMaterialOnce ==
  (pc = "idle" /\ event = "rendered") =>
    /\ DOMAIN BindsIn(Sc) = materials
    /\ \A m \in DOMAIN BindsIn(Sc) : BindsIn(Sc)[m] = 1

\* C26: the frame a render_frame call has just recorded holds exactly one
\* indexed draw for every registered object whose material is registered, no
\* other draw, each under the pipeline of the object's material, from the
\* object's buffers and with the number of indices add_object was given (the
\* index buffer holds that many u16); with one material and one object of it
\* the frame has one bind and one draw.
C26_OneDrawPerObject ==
  (pc = "idle" /\ event = "rendered") =>
    LET cb == command_buffers[frame_sync.frame_idx]
    IN /\ \A o \in DOMAIN objects :
            Cardinality({d \in cb : d.object = o}) =
              IF objects[o].material \in materials THEN 1 ELSE 0
       /\ \A d \in cb :
            /\ d.object \in DOMAIN objects
            /\ d.pipeline = objects[d.object].material
            /\ d.pipeline \in DOMAIN Sc.pipelines
            /\ d.vertices = objects[d.object].vertices.buffer
            /\ d.indices = objects[d.object].indices.buffer
            /\ Len(memory[d.indices].bytes) = SizeOfT * d.n_indices
            /\ (call.op = "add_object" /\ d.object = next_object_id - 1) =>
                 d.n_indices = call.local
       /\ \A m \in materials, o \in DOMAIN objects :
            (materials = {m} /\ DOMAIN objects = {o} /\ objects[o].material = m) =>
              /\ BindsIn(Sc) = [x \in {m} |-> 1]
              /\ Cardinality(cb) = 1

\* one material is registered, the one object of it was added with two
\* indices, and the frame rendered has one draw of two indices
C26_Witness ==
  /\ pc = "idle"
  /\ event = "rendered"
  /\ materials = {0}
  /\ DOMAIN objects = {0}
  /\ objects[0].material = 0
  /\ call.op = "add_object"
  /\ call.local = 2
  /\ \E d \in command_buffers[frame_sync.frame_idx] :
       d.object = 0 /\ d.n_indices = 2 /\ d.pipeline = 0

\* C27: the ids load_material and add_object issue are strictly increasing:
\* the counters never decrease, every call spends the counter's value whether
\* it succeeds or fails, the id that enters a registry is the counter's value
\* before the call, and every id in a registry is below the counter, so an id
\* that was issued (and maybe unloaded or removed since) is never issued again.
C27_IdsNeverReissued ==
  /\ [](\A m \in materials : m < next_material_id)
  /\ [](\A o \in DOMAIN objects : o < next_object_id)
  /\ [][/\ next_material_id' >= next_material_id
        /\ next_object_id' >= next_object_id]_vars
  /\ [][(materials' \ materials # {}) =>
          /\ materials' \ materials = {next_material_id}
          /\ next_material_id' = next_material_id + 1
          /\ event' = "loaded"]_vars
  /\ [][(DOMAIN objects' \ DOMAIN objects # {}) =>
          /\ DOMAIN objects' \ DOMAIN objects = {next_object_id}
          /\ next_object_id' = next_object_id + 1
          /\ event' = "object_added"]_vars
  /\ [][(pc = "idle" /\ event' \in {"loaded", "load_err", "load_panic"}) =>
          next_material_id' = next_material_id + 1]_vars
  /\ [][(pc = "idle" /\ event' \in {"object_added", "invalid_argument",
                                     "device_error", "drop_panic"}) =>
          next_object_id' = next_object_id + 1]_vars

\* material 1 was issued after material 0 left the registry or failed to
\* load, and object 2 was issued after object 0 was removed (its index
\* buffer is released) and id 1 was spent
C27_Witness ==
  /\ pc = "idle"
  /\ event = "object_added"
  /\ materials = {1}
  /\ next_material_id = 2
  /\ DOMAIN objects = {2}
  /\ next_object_id = 3
  /\ \E h \in 1..Len(memory) : memory[h].frees = 1 /\ memory[h].device_local

\* the resources of the live swapchain that Swapchain::free has destroyed
DepthDestroyed == ~Sc.depth_view /\ ~Sc.depth_mem
SomePipelineDestroyed == \E m \in DOMAIN Sc.pipelines : ~Sc.pipelines[m]
PipelinesDestroyed == \A m \in DOMAIN Sc.pipelines : ~Sc.pipelines[m]
ImagesDestroyed == Sc.images = <<>>

\* C28: a teardown destroys in this order: the depth resources, every
\* pipeline, every presentable image, the render pass, the swapchain object
\* (whatever is destroyed, everything before it in the order is destroyed
\* already).
C28_TeardownOrder ==
  Live =>
    /\ (~Sc.depth_view \/ ~Sc.depth_mem) => queue = <<>>
    /\ SomePipelineDestroyed => DepthDestroyed
    /\ ImagesDestroyed => (DepthDestroyed /\ PipelinesDestroyed)
    /\ ~Sc.render_pass => ImagesDestroyed
    /\ ~Sc.swapchain => ~Sc.render_pass

\* C28, what holds instead: the same order with the last two exchanged, the
\* swapchain object before the render pass.
C28_TeardownOrderAsCoded ==
  Live =>
    /\ (~Sc.depth_view \/ ~Sc.depth_mem) => queue = <<>>
    /\ SomePipelineDestroyed => DepthDestroyed
    /\ ImagesDestroyed => (DepthDestroyed /\ PipelinesDestroyed)
    /\ ~Sc.swapchain => ImagesDestroyed
    /\ ~Sc.render_pass => ~Sc.swapchain

\* C29: a map on a buffer that was freed, dynamic or promoted, has aborted
\* (use after free): it has not returned, with an error or otherwise.
C29_MapAfterFreeAborts ==
  (call.op = "map" /\ pc \in {"idle", "aborted"} /\ call.self[1].freed) =>
    (pc = "aborted" /\ event = "use_after_free")

\* C29, the half that holds: a map on a freed buffer that is dynamic aborts,
\* and no map on a freed buffer writes memory.
C29_DynamicMapAfterFreeAborts ==
  [][(pc = "map" /\ queue' = queue /\ buf[1].freed) =>
       /\ memory' = memory
       /\ buf[1].dynamic => (pc' = "aborted" /\ event' = "use_after_free")]_vars

\* C30: while a submitted frame is unretired, every material whose pipeline
\* the frame bound and drew with is still registered (its shader modules are
\* not destroyed) and its pipeline in the swapchain the frame was recorded
\* for is not destroyed.
C30_NoUnloadWhileInFlight ==
  \A i \in 1..Len(queue) : \A d \in queue[i].draws :
    /\ d.pipeline \in materials
    /\ (Live /\ queue[i].gen = builds) => d.pipeline \in LivePipelines

\* C31: the CPU writes the uniform buffer of a frame slot only when no frame
\* submitted on that slot is still in flight: when next_frame is about to map
\* camera_ubos[frame_idx] of a swapchain with pipelines (every pipeline's bind
\* names the slot's descriptor set), the queue holds no frame of that slot.
C31_UboWriteWhenSlotIdle ==
  (pc = "map_ubo" /\ DOMAIN Sc.pipelines # {}) =>
    \A i \in 1..Len(queue) : queue[i].slot # frame_sync.frame_idx

\* C32: when next_frame is about to reset the fence of its slot, no
\* submission that signals that fence is still pending.
C32_ResetOnlyRetiredFence ==
  pc = "submit" =>
    \A i \in 1..Len(queue) : queue[i].fence # fence(frame_sync)

\* C34: when load_material fails to create the pipeline for the live
\* swapchain, the call returns an error without aborting, and neither the
\* material registry nor the swapchain's pipelines hold the id it drew.
C34_PipelineFailureIsError ==
  event = "load_panic" =>
    /\ result = "err"
    /\ pc = "idle"
    /\ (next_material_id - 1) \notin materials
    /\ Live => (next_material_id - 1) \notin DOMAIN Sc.pipelines

\* C34, the half that holds: the failed load leaves the id it drew out of the
\* registry and out of the swapchain's pipelines.
C34_FailedLoadRegistersNothing ==
  event \in {"load_panic", "load_err"} =>
    /\ (next_material_id - 1) \notin materials
    /\ Live => (next_material_id - 1) \notin DOMAIN Sc.pipelines

C35_InvalidateKeepsRegistries ==
  /\ [][((pc \in FreePcs \/ (pc = "idle" /\ (pc' = "sc_wait_idle" \/ event' = "invalidated")))
          /\ queue' = queue) =>
          UNCHANGED <<materials, objects, memory, vk_buffers, frame_sync,
                      next_material_id, next_object_id>>]_vars
  /\ []((pc = "idle" /\ event = "invalidated") => ~Live)

\* a swapchain that had been built was invalidated in a scene with its
\* material and a moved object
C35_Witness ==
  /\ pc = "idle"
  /\ event = "invalidated"
  /\ builds >= 1
  /\ ~Live
  /\ materials = {0}
  /\ \E o \in DOMAIN objects : objects[o].transform = "moved"
  /\ frame_sync.frame_idx = 1

\* the ways reupload_vertices ends
ReuploadEvents ==
  {"reuploaded_nothing", "immutable_buffer", "use_after_free", "device_error",
   "import_overflow", "mapped", "unmap_error"}

C37_WitnessDynamic ==
  /\ pc = "idle"
  /\ call.op = "reupload_vertices"
  /\ result = "ok"
  /\ event = "mapped"
  /\ call.id \in DOMAIN objects
  /\ objects[call.id].vertices.dynamic
  /\ memory[objects[call.id].vertices.buffer].bytes = cast_slice(<<0>>)
  /\ memory[objects[call.id].indices.buffer].device_local

\* everything the engine holds but the outcome of the last call
EngineStateUnchanged ==
  UNCHANGED <<objects, memory, vk_buffers, materials, swapchain, frame_sync,
              fence_signaled, next_object_id, next_material_id, queue,
              command_buffers, builds>>

\* set_transform and reupload_vertices on an id that is not registered, and
\* an unload_material that takes no material out of the registry, change
\* nothing and return without error
UnknownIdLeavesEngine ==
  /\ (pc = "idle" /\ call'.op = "set_transform" /\ event' = "transform_set"
        /\ call'.id \notin DOMAIN objects) =>
       (EngineStateUnchanged /\ result' = "ok" /\ pc' = "idle")
  /\ (pc = "idle" /\ call'.op = "reupload_vertices" /\ event' \in ReuploadEvents
        /\ call'.id \notin DOMAIN objects) =>
       (EngineStateUnchanged /\ result' = "ok" /\ pc' = "idle")
  /\ (pc = "idle" /\ event' = "unloaded" /\ materials' = materials) =>
       (EngineStateUnchanged /\ result' = "ok" /\ pc' = "idle")
  /\ (pc = "idle" /\ pc' = "ro_wait_idle") => EngineStateUnchanged

\* set_transform on a registered id changes that object's transform and
\* nothing else
KnownIdMovesOneObject ==
  (pc = "idle" /\ call'.op = "set_transform" /\ event' = "transform_set"
     /\ call'.id \in DOMAIN objects) =>
    /\ DOMAIN objects' = DOMAIN objects
    /\ \A o \in DOMAIN objects :
         objects'[o] = IF o = call'.id
                         THEN [objects[o] EXCEPT !.transform = objects'[o].transform]
                         ELSE objects[o]
    /\ UNCHANGED <<memory, vk_buffers, materials, swapchain, frame_sync,
                   fence_signaled, next_object_id, next_material_id, queue,
                   command_buffers, builds>>
    /\ result' = "ok"

\* C39 as stated: an operation addressed to an id that is not registered
\* (set_transform, reupload_vertices, remove_object, unload_material) changes
\* no engine state and returns without error, and set_transform on a
\* registered id changes only that object's transform.
C39_UnknownIdIsNoOp ==
  [][/\ UnknownIdLeavesEngine
     /\ KnownIdMovesOneObject
     /\ (pc = "ro_wait_idle" /\ call.id \notin DOMAIN objects) =>
          (EngineStateUnchanged /\ result' = "ok" /\ pc' = "idle")]_vars

\* C39 amended: the same, except that remove_object waits for the device to
\* be idle before it looks the id up and returns the error of that wait when
\* it fails; the engine state is unchanged in both cases.
C39_UnknownIdChangesNothing ==
  [][/\ UnknownIdLeavesEngine
     /\ KnownIdMovesOneObject
     /\ (pc = "ro_wait_idle" /\ call.id \notin DOMAIN objects) =>
          /\ EngineStateUnchanged
          /\ pc' = "idle"
          /\ \/ result' = "ok" /\ event' = "removed_nothing"
             \/ result' = "err" /\ event' = "wait_idle_err"]_vars

\* set_transform was addressed to an id that had been removed while another
\* object, never moved, is registered
C39_Witness ==
  /\ pc = "idle"
  /\ call.op = "set_transform"
  /\ event = "transform_set"
  /\ call.id \notin DOMAIN objects
  /\ call.id < next_object_id
  /\ \E o \in DOMAIN objects : objects[o].transform = "identity"
  /\ \E h \in 1..Len(memory) : memory[h].device_local /\ memory[h].frees = 1

\* a drop of swapchain value sc reaches a destructor that panics: the
\* swapchain's own, a pipeline's or an image's
DropAborts(sc) ==
  \/ ~sc.freed
  \/ \E m \in DOMAIN sc.pipelines : sc.pipelines[m]
  \/ \E i \in 1..Len(sc.images) : ~sc.images[i].freed

C36_WitnessUnfreedDrop ==
  /\ pc = "aborted"
  /\ call.op = "drop"
  /\ ~call.self[1].freed
  /\ Len(call.self[1].images) >= 2

\* a second free aborted on the empty depth_image_mem
C36_WitnessSecondFree ==
  /\ pc = "aborted"
  /\ call.op = "free"
  /\ call.self[1].freed
  /\ event = "unwrap_none"

\* C38: Swapchain::new asks for min_image_count + 1 images, cut down to
\* max_image_count when that is not 0 and the request exceeds it: the count
\* lies in [min_image_count, max_image_count] when max_image_count > 0 and is
\* min_image_count + 1 when max_image_count = 0.
C38_ImageCountClamped ==
  (call.op = "new" /\ event = "built") =>
    LET min_image_count == call.count
        max_image_count == call.local
        image_count == Len(Sc.images)
    IN /\ image_count = IF max_image_count > 0 /\ min_image_count + 1 > max_image_count
                          THEN max_image_count
                          ELSE min_image_count + 1
       /\ max_image_count > 0 =>
            (min_image_count <= image_count /\ image_count <= max_image_count)
       /\ max_image_count = 0 => image_count = min_image_count + 1

\* a build whose min_image_count + 1 exceeded the surface's maximum
C38_Witness ==
  /\ call.op = "new"
  /\ event = "built"
  /\ call.local > 0
  /\ call.count + 1 > call.local
  /\ Len(Sc.images) = call.local
  /\ call.count >= 2

\* the positions of the teardown's log that release (kind, id)
ReleasesOf(kind, id) == {j \in 1..Len(released) : released[j] = [kind |-> kind, id |-> id]}

\* (kind, id) is released exactly once, before position k of the log
ReleasedOnceBefore(kind, id, k) ==
  /\ Cardinality(ReleasesOf(kind, id)) = 1
  /\ \A j \in ReleasesOf(kind, id) : j < k

\* C40: when Drop for Engine destroys the descriptor pool, the command pool
\* or the device, no object is left in the registry and every buffer
\* allocation has been freed exactly once, none of them twice by the
\* teardown; every material of the registry, every slot's uniform buffer
\* and the frame synchronizer have been released exactly once and earlier;
\* and the swapchain has been freed exactly once and earlier if there is
\* one, and not at all if there is none.
C40_TeardownReleasesBeforeDestroy ==
  \A k \in 1..Len(released) :
    released[k].kind \in {"descriptor_pool", "command_pool", "device"} =>
      /\ DOMAIN objects = {}
      /\ \A h \in DOMAIN memory :
           /\ ~memory[h].live
           /\ memory[h].frees = 1
           /\ Cardinality(ReleasesOf("vertices", h) \cup ReleasesOf("indices", h)) <= 1
           /\ \A j \in ReleasesOf("vertices", h) \cup ReleasesOf("indices", h) : j < k
      /\ \A m \in materials : ReleasedOnceBefore("material", m, k)
      /\ ReleasedIds("material") \subseteq materials
      /\ IF Live
           THEN Sc.freed /\ ReleasedOnceBefore("swapchain", builds, k)
           ELSE ReleasedIds("swapchain") = {}
      /\ \A s \in 0..(frame_sync.frames_in_flight - 1) : ReleasedOnceBefore("ubo", s, k)
      /\ ReleasedOnceBefore("frame_sync", 0, k)

\* the device has been destroyed by a teardown that released an object's
\* buffers, a material and a swapchain that had work submitted
C40_Witness ==
  /\ \E k \in 1..Len(released) : released[k].kind = "device"
  /\ ReleasedIds("vertices") # {}
  /\ ReleasedIds("indices") # {}
  /\ ReleasedIds("material") # {}
  /\ ReleasedIds("swapchain") # {}
  /\ did_submit

\* the device has been destroyed by a teardown of an engine that had no
\* swapchain, after an object had been removed by remove_object
C40_WitnessNoSwapchain ==
  /\ \E k \in 1..Len(released) : released[k].kind = "device"
  /\ ~Live
  /\ \E h \in DOMAIN memory : ReleasesOf("vertices", h) \cup ReleasesOf("indices", h) = {}
====
